---- MODULE Spec2Model ----
(***************************************************************************)
(* weave: a terminal front-end that drives the `fab` command-line tool.    *)
(* The module models the application State (useWeaveState), the three      *)
(* command execution modes (useCommandExecution), the job poller           *)
(* (useJobPolling) and the keyboard handlers (createInputHandlers).        *)
(*                                                                         *)
(* Text is a sequence of tokens.  A token is either a single character     *)
(* (" ", "\n", "\r", "[", ";", "m", a digit, ESC) or an opaque word that   *)
(* contains no white space and no escape character.  null is <<>> for      *)
(* optional values (config, currentItem, currentJob, a result not yet      *)
(* produced).                                                              *)
(***************************************************************************)
EXTENDS Integers, Sequences, FiniteSets, TLC

VARIABLES
  state,      \* the State record held by useWeaveState
  persisted,  \* the list last handed to HistoryManager.save
  now,        \* Date.now(), in milliseconds
  exec,       \* activation of executeCommand
  retry,      \* activation of executeCommandWithRetry
  stream,     \* activation of executeCommandWithStatusUpdates
  poll,       \* useJobPolling: its refs, its effect and the batch in flight
  obs,        \* observation counters: subprocesses spawned, history appends
  nav,        \* the keyboard: commands the handlers await, debounce refs
  deb,        \* useDebounced and useDebouncedAsync: refs, timers, promises
  pure        \* the text a parsing function is applied to, and its result

vars == <<state, persisted, now, exec, retry, stream, poll, obs, nav, deb, pure>>

-----------------------------------------------------------------------------
(* Bounds of the model *)

MaxTime == 1        \* the clock stops here
MaxCalls == 2       \* executeCommand invocations issued directly per run
MaxAttempts == 3    \* executeCommand calls made through executeCommandWithRetry
MaxProgress == 1    \* firings of the loading-progress interval per run
MaxChunks == 2      \* data events of a streaming child per stream
MaxStatusTicks == 2 \* firings of the streaming status interval
MaxJobs == 2        \* background jobs started per run
MaxQueries == 3     \* status queries the poller issues per run
MaxCommands == 3    \* commands the key handlers spawn per run
MaxPending == 1     \* commands of key handlers in flight at a time
MaxAppends == 2     \* addToHistory calls per run of the history model
MaxTriggers == 3    \* calls of a debounced function per run, per hook
MaxText == 5        \* characters of a text cleanOutput is applied to

-----------------------------------------------------------------------------
(* constants/index.ts *)

TIMEOUTS_DEFAULT == 30000
TIMEOUTS_WORKSPACE_LOAD == 15000
TIMEOUTS_JOB_RUN == 600000
TIMEOUTS_RETRY_DELAY == 1000
LIMITS_CACHE_TIMEOUT == 300000
LIMITS_MAX_RETRIES == 2
LIMITS_PROGRESS_INCREMENT == 10
LIMITS_PROGRESS_MAX == 90
LIMITS_HISTORY_SIZE == 50
LIMITS_OUTPUT_PREVIEW == 200

VIEWS_MAIN == "main"
VIEWS_WORKSPACES == "workspaces"
VIEWS_WORKSPACE_ITEMS == "workspace-items"
VIEWS_ITEM_ACTIONS == "item-actions"
VIEWS_WORKSPACE_SELECTION == "workspace-selection"
VIEWS_OUTPUT == "output"
VIEWS_COMMAND_HISTORY == "command-history"
VIEWS_JOB_MENU == "job-menu"
VIEWS_JOB_STATUS == "job-status"

-----------------------------------------------------------------------------
(* Text *)

ESC == "ESC"
AnsiParam == {"0", "1", "2", "3", "4", "5", "6", "7", "8", "9", ";"}
WhiteSpace == {" ", "\n", "\r", "\t"}

Min(a, b) == IF a < b THEN a ELSE b

\* String.prototype.substring(0, n)
Substring0(s, n) == SubSeq(s, 1, Min(Len(s), n))

RECURSIVE TrimStart(_)
TrimStart(s) ==
  IF s = <<>> THEN s
  ELSE IF Head(s) \in WhiteSpace THEN TrimStart(Tail(s)) ELSE s

RECURSIVE TrimEnd(_)
TrimEnd(s) ==
  IF s = <<>> THEN s
  ELSE IF s[Len(s)] \in WhiteSpace THEN TrimEnd(SubSeq(s, 1, Len(s) - 1)) ELSE s

\* String.prototype.trim
Trim(s) == TrimEnd(TrimStart(s))

\* index of the "m" that closes [0-9;]*m when the run starts at i, else 0
RECURSIVE AnsiEnd(_, _)
AnsiEnd(s, i) ==
  IF i > Len(s) THEN 0
  ELSE IF s[i] \in AnsiParam THEN AnsiEnd(s, i + 1)
  ELSE IF s[i] = "m" THEN i ELSE 0

\* .replace(/\x1b\[[0-9;]*m/g, '') from position i on
RECURSIVE StripAnsiFrom(_, _)
StripAnsiFrom(s, i) ==
  IF i > Len(s) THEN <<>>
  ELSE IF /\ s[i] = ESC
          /\ i + 1 <= Len(s)
          /\ s[i + 1] = "["
          /\ AnsiEnd(s, i + 2) > 0
       THEN StripAnsiFrom(s, AnsiEnd(s, i + 2) + 1)
       ELSE <<s[i]>> \o StripAnsiFrom(s, i + 1)

\* .replace(/\r\n/g, '\n')
RECURSIVE CrlfToLf(_)
CrlfToLf(s) ==
  IF s = <<>> THEN s
  ELSE IF Len(s) >= 2 /\ s[1] = "\r" /\ s[2] = "\n"
       THEN <<"\n">> \o CrlfToLf(SubSeq(s, 3, Len(s)))
       ELSE <<Head(s)>> \o CrlfToLf(Tail(s))

cleanOutput(output) == Trim(CrlfToLf(StripAnsiFrom(output, 1)))

\* the messages the code builds
TimedOutError == <<"Command timed out. Try again or check your connection.">>
ErrorExecuting(message) == <<"Error executing command: ">> \o message
AttemptFailed(n) == <<"Attempt ", ToString(n), " failed. Retrying...">>
FailedAfter(n, lastError) ==
  <<"Command failed after ", ToString(n), " attempts: ">> \o lastError

-----------------------------------------------------------------------------
(* Application State: useWeaveState *)

createInitialState ==
  [ currentView |-> VIEWS_MAIN,
    selectedOption |-> 0,
    output |-> <<>>,
    loading |-> FALSE,
    error |-> <<>>,
    workspaces |-> <<>>,
    selectedWorkspace |-> 0,
    workspaceItems |-> <<>>,
    selectedWorkspaceItem |-> 0,
    inInteractiveMode |-> FALSE,
    commandHistory |-> <<>>,
    loadingProgress |-> 0,
    config |-> <<>>,
    activeJobs |-> <<>>,
    currentJob |-> <<>>,
    selectedJobOption |-> 0,
    selectedItemAction |-> 0,
    currentItem |-> <<>>,
    completedJobs |-> {},
    cache |-> <<>>,
    selectedDestinationWorkspace |-> 0,
    isMovingItem |-> TRUE ]

\* resetState that also keeps the active jobs
resetState_keepsJobs(st) ==
  [createInitialState EXCEPT
     !.config = st.config,
     !.commandHistory = st.commandHistory,
     !.cache = st.cache,
     !.activeJobs = st.activeJobs]

\* actions.resetState
resetState(st) ==
  [createInitialState EXCEPT
     !.config = st.config,
     !.commandHistory = st.commandHistory,
     !.cache = st.cache]

\* HistoryManager.createEntry
createEntry(command, result, t) ==
  [ command |-> command,
    timestamp |-> t,
    success |-> result.success,
    output |-> Substring0(result.output, LIMITS_OUTPUT_PREVIEW) ]

\* newHistory without the slice
newHistory_unbounded(history, entry) == <<entry>> \o history

\* the list actions.addToHistory computes from the previous one
newHistory(history, entry) ==
  <<entry>> \o Substring0(history, LIMITS_HISTORY_SIZE - 1)

\* HistoryManager.save: what is written to the history file
HistoryManager_save(history) == Substring0(history, LIMITS_HISTORY_SIZE)

\* actions.addToHistory, as a function of the previous State
addToHistory(st, command, result, t) ==
  [st EXCEPT !.commandHistory = newHistory(@, createEntry(command, result, t))]

\* the TTL actions.getCachedData applies
cacheTimeoutOf(st) ==
  IF st.config # <<>> /\ st.config[1].cacheTimeout # 0
  THEN st.config[1].cacheTimeout
  ELSE LIMITS_CACHE_TIMEOUT

\* getCachedData with the age test reversed
getCachedData_reversedAge(st, key, t) ==
  IF key \in DOMAIN st.cache /\ t - st.cache[key].timestamp >= cacheTimeoutOf(st)
  THEN <<st.cache[key].data>>
  ELSE <<>>

\* actions.getCachedData: <<data>> when a fresh entry exists, <<>> for null
getCachedData(st, key, t) ==
  IF key \in DOMAIN st.cache /\ t - st.cache[key].timestamp < cacheTimeoutOf(st)
  THEN <<st.cache[key].data>>
  ELSE <<>>

\* actions.setCachedData, as a function of the previous State
setCachedData(st, key, data, t) ==
  [st EXCEPT !.cache =
     [k \in (DOMAIN @) \cup {key} |->
        IF k = key THEN [data |-> data, timestamp |-> t] ELSE @[k]]]

-----------------------------------------------------------------------------
(* The external tool, as seen through child_process *)

CommandBuilder_listWorkspaces == "fab ls"
CommandBuilder_job_runSync(workspace, itemName) ==
  "fab job run /" \o workspace \o ".Workspace/" \o itemName

\* ExecuteCommandOptions; "undef" is an absent field, timeout 0 is absent
NoOptions == [skipCache |-> "undef", silent |-> "undef", timeout |-> 0]

\* the option objects the callers of executeCommand pass
OptionSets ==
  { NoOptions,
    [NoOptions EXCEPT !.silent = "true"],
    [NoOptions EXCEPT !.skipCache = "true"] }

AnsiOut == <<ESC, "[", "0", "m", "out", "\r", "\n">>
\* how a child process ends: it exits with a code, or it cannot be spawned
ProcessEnds ==
  [kind : {"exit"}, code : {0}, stdout : {AnsiOut},
   stderr : {<<>>, <<" ">>, <<"warn", " ">>}]
  \cup
  [kind : {"exit"}, code : {1}, stdout : {<<"out">>}, stderr : {<<>>}]
  \cup
  [kind : {"exit"}, code : {1}, stdout : {<<>>},
   stderr : {<<"Command timed out. Try again or check your connection.">>}]
  \cup
  [kind : {"spawnerr"}, code : {1}, stdout : {<<>>}, stderr : {<<>>}]

AbortEnd == [kind |-> "abort", code |-> 1, stdout |-> <<>>, stderr |-> <<>>]

\* err.message of the rejection child_process.exec produces
ErrMessage(command, ev) ==
  IF ev.kind = "spawnerr" THEN <<"spawn ENOENT">>
  ELSE <<"Command failed: ", command, "\n">> \o ev.stderr

-----------------------------------------------------------------------------
(* executeCommand: useCommandExecution.ts *)

\* `${command}-${JSON.stringify(options)}`: one key per (command, options)
CacheKey(command, options) == <<command, options>>

SkipCache(options) == options.skipCache = "true"
Silent(options) == options.silent = "true"

\* the cache lookup at the head of executeCommand
\* hit: the State after a cache hit; miss: the State once the child runs
executeCommand_hit(st, options, cached) ==
  IF Silent(options) THEN st
  ELSE LET st1 == [st EXCEPT !.output = cached.output]
       IN IF cached.error # <<>> THEN [st1 EXCEPT !.error = cached.error] ELSE st1

executeCommand_lookup(st, command, options, t) ==
  IF SkipCache(options) THEN <<>>
  ELSE getCachedData(st, CacheKey(command, options), t)

executeCommand_begin(st) == [st EXCEPT !.loading = TRUE, !.error = <<>>]

\* executeCommand_resolved with success = (stderr is the empty string)
executeCommand_resolved_untrimmed(st, command, options, ev, t) ==
  LET result == [ success |-> ev.stderr = <<>>,
                  output |-> cleanOutput(ev.stdout),
                  error |-> Trim(ev.stderr),
                  command |-> command ]
      st1 == IF result.success /\ ~SkipCache(options)
             THEN setCachedData(st, CacheKey(command, options), result, t)
             ELSE st
      st2 == IF Silent(options) THEN st1
             ELSE IF result.success
                  THEN [st1 EXCEPT !.output = result.output]
                  ELSE [st1 EXCEPT !.error = result.error]
      st3 == [st2 EXCEPT !.loadingProgress = 100]
      st4 == addToHistory(st3, command, result, t)
  IN [st |-> [st4 EXCEPT !.loading = FALSE], result |-> result]

\* executeCommand_resolved that stores every result in the cache
executeCommand_resolved_cachesAll(st, command, options, ev, t) ==
  LET result == [ success |-> Trim(ev.stderr) = <<>>,
                  output |-> cleanOutput(ev.stdout),
                  error |-> Trim(ev.stderr),
                  command |-> command ]
      st1 == IF ~SkipCache(options)
             THEN setCachedData(st, CacheKey(command, options), result, t)
             ELSE st
      st2 == IF Silent(options) THEN st1
             ELSE IF result.success
                  THEN [st1 EXCEPT !.output = result.output]
                  ELSE [st1 EXCEPT !.error = result.error]
      st3 == [st2 EXCEPT !.loadingProgress = 100]
      st4 == addToHistory(st3, command, result, t)
  IN [st |-> [st4 EXCEPT !.loading = FALSE], result |-> result]

\* the try block after execAsync resolved (exit code 0)
executeCommand_resolved(st, command, options, ev, t) ==
  LET result == [ success |-> Trim(ev.stderr) = <<>>,
                  output |-> cleanOutput(ev.stdout),
                  error |-> Trim(ev.stderr),
                  command |-> command ]
      st1 == IF result.success /\ ~SkipCache(options)
             THEN setCachedData(st, CacheKey(command, options), result, t)
             ELSE st
      st2 == IF Silent(options) THEN st1
             ELSE IF result.success
                  THEN [st1 EXCEPT !.output = result.output]
                  ELSE [st1 EXCEPT !.error = result.error]
      st3 == [st2 EXCEPT !.loadingProgress = 100]
      st4 == addToHistory(st3, command, result, t)
  IN [st |-> [st4 EXCEPT !.loading = FALSE], result |-> result]

\* executeCommand_aborted without the history entry
executeCommand_aborted_noHistory(st, command, options, t) ==
  LET result == [ success |-> FALSE, output |-> <<>>,
                  error |-> TimedOutError, command |-> command ]
      st1 == IF Silent(options) THEN st ELSE [st EXCEPT !.error = TimedOutError]
      st2 == [st1 EXCEPT !.loadingProgress = 100]
  IN [st |-> [st2 EXCEPT !.loading = FALSE], result |-> result]

\* the catch block for an AbortError
executeCommand_aborted(st, command, options, t) ==
  LET result == [ success |-> FALSE, output |-> <<>>,
                  error |-> TimedOutError, command |-> command ]
      st1 == IF Silent(options) THEN st ELSE [st EXCEPT !.error = TimedOutError]
      st2 == [st1 EXCEPT !.loadingProgress = 100]
      st3 == addToHistory(st2, command, result, t)
  IN [st |-> [st3 EXCEPT !.loading = FALSE], result |-> result]

\* the catch block for every other rejection
executeCommand_rejected(st, command, options, ev, t) ==
  LET stderr == IF ev.stderr # <<>> THEN ev.stderr ELSE ev.stdout
      error == IF Trim(stderr) # <<>> THEN Trim(stderr)
               ELSE ErrorExecuting(ErrMessage(command, ev))
      result == [ success |-> FALSE, output |-> ev.stdout,
                  error |-> error, command |-> command ]
      st1 == IF Silent(options) THEN st ELSE [st EXCEPT !.error = error]
      st2 == [st1 EXCEPT !.loadingProgress = 100]
      st3 == addToHistory(st2, command, result, t)
  IN [st |-> [st3 EXCEPT !.loading = FALSE], result |-> result]

\* executeCommand_settle without the AbortError branch
executeCommand_settle_noAbortBranch(st, command, options, ev, t) ==
  IF ev.kind = "exit" /\ ev.code = 0
  THEN executeCommand_resolved(st, command, options, ev, t)
  ELSE executeCommand_rejected(st, command, options, ev, t)

\* what executeCommand does with the way its child ended
executeCommand_settle(st, command, options, ev, t) ==
  IF ev.kind = "abort" THEN executeCommand_aborted(st, command, options, t)
  ELSE IF ev.kind = "exit" /\ ev.code = 0
       THEN executeCommand_resolved(st, command, options, ev, t)
       ELSE executeCommand_rejected(st, command, options, ev, t)

\* calls and failed count the attempts made and the attempts that failed
RetryIdle ==
  [ pc |-> "idle", command |-> "", options |-> NoOptions, retries |-> 0,
    attempt |-> 0, lastError |-> <<>>, calls |-> 0, failed |-> 0,
    result |-> <<>>, atCall |-> [appended |-> 0, spawned |-> 0],
    delay |-> 0 ]

\* executeCommandWithRetry_continue with the loop test attempt <= retries + 1
executeCommandWithRetry_continue_oneMore(st, r, result) ==
  IF result.success
  THEN [st |-> st, retry |-> [r EXCEPT !.pc = "done", !.result = <<result>>]]
  ELSE IF r.attempt < r.retries + 1
       THEN [ st |-> [st EXCEPT !.error = AttemptFailed(r.attempt + 1)],
              retry |-> [r EXCEPT !.pc = "sleep", !.lastError = result.error,
                           !.failed = @ + 1,
                           !.delay = TIMEOUTS_RETRY_DELAY * (r.attempt + 1)] ]
       ELSE [ st |-> [st EXCEPT !.error = FailedAfter(r.retries + 1, result.error)],
              retry |-> [r EXCEPT !.pc = "done", !.lastError = result.error,
                           !.failed = @ + 1,
                           !.result = <<[ success |-> FALSE,
                                          output |-> <<>>,
                                          error |-> result.error,
                                          command |-> r.command ]>>] ]

\* executeCommandWithRetry_continue with the same delay before every attempt
executeCommandWithRetry_continue_flatDelay(st, r, result) ==
  IF result.success
  THEN [st |-> st, retry |-> [r EXCEPT !.pc = "done", !.result = <<result>>]]
  ELSE IF r.attempt < r.retries
       THEN [ st |-> [st EXCEPT !.error = AttemptFailed(r.attempt + 1)],
              retry |-> [r EXCEPT !.pc = "sleep", !.lastError = result.error,
                           !.failed = @ + 1,
                           !.delay = TIMEOUTS_RETRY_DELAY] ]
       ELSE [ st |-> [st EXCEPT !.error = FailedAfter(r.retries + 1, result.error)],
              retry |-> [r EXCEPT !.pc = "done", !.lastError = result.error,
                           !.failed = @ + 1,
                           !.result = <<[ success |-> FALSE,
                                          output |-> <<>>,
                                          error |-> result.error,
                                          command |-> r.command ]>>] ]

\* executeCommandWithRetry from the return of an attempt to its next await
executeCommandWithRetry_continue(st, r, result) ==
  IF result.success
  THEN [st |-> st, retry |-> [r EXCEPT !.pc = "done", !.result = <<result>>]]
  ELSE IF r.attempt < r.retries
       THEN [ st |-> [st EXCEPT !.error = AttemptFailed(r.attempt + 1)],
              retry |-> [r EXCEPT !.pc = "sleep", !.lastError = result.error,
                           !.failed = @ + 1,
                           !.delay = TIMEOUTS_RETRY_DELAY * (r.attempt + 1)] ]
       ELSE [ st |-> [st EXCEPT !.error = FailedAfter(r.retries + 1, result.error)],
              retry |-> [r EXCEPT !.pc = "done", !.lastError = result.error,
                           !.failed = @ + 1,
                           !.result = <<[ success |-> FALSE,
                                          output |-> <<>>,
                                          error |-> result.error,
                                          command |-> r.command ]>>] ]

\* the caller's continuation runs in the same turn as executeCommand returns
Deliver(st, caller, result) ==
  IF caller = "retry"
  THEN executeCommandWithRetry_continue(st, retry, result)
  ELSE [st |-> st, retry |-> retry]

ExecIdle ==
  [ pc |-> "idle", caller |-> "none", command |-> "", options |-> NoOptions,
    timer |-> "none", progressInterval |-> FALSE, proc |-> "none",
    path |-> "none", ev |-> AbortEnd, result |-> <<>>, resets |-> 0,
    atCall |-> [appended |-> 0, spawned |-> 0, cache |-> <<>>, fresh |-> FALSE,
                output |-> <<>>, error |-> <<>>] ]

\* an unexpired entry for the key exists at time t
FreshEntry(st, key, t) ==
  /\ key \in DOMAIN st.cache
  /\ t < st.cache[key].timestamp + cacheTimeoutOf(st)

\* a call of executeCommand(command, options) up to its first await;
\* r is the activation of executeCommandWithRetry the call belongs to
executeCommand_call(command, options, caller, r, mode) ==
  LET cached == executeCommand_lookup(state, command, options, now)
      atCall == [ appended |-> Len(state.commandHistory),
                  spawned |-> obs.spawned,
                  cache |-> state.cache,
                  fresh |-> FreshEntry(state, CacheKey(command, options), now),
                  output |-> state.output,
                  error |-> state.error ]
      base == [ExecIdle EXCEPT !.caller = caller, !.command = command,
                 !.options = options, !.resets = exec.resets, !.atCall = atCall]
  IN IF cached # <<>>
     THEN LET st1 == executeCommand_hit(state, options, cached[1])
              d == IF caller = "retry"
                   THEN executeCommandWithRetry_continue(st1, r, cached[1])
                   ELSE [st |-> st1, retry |-> r]
          IN /\ state' = d.st
             /\ retry' = d.retry
             /\ exec' = [base EXCEPT !.pc = "done", !.path = "hit",
                           !.result = cached]
             /\ obs' = [obs EXCEPT !.mode = mode, !.calls = @ + 1]
     ELSE /\ state' = executeCommand_begin(state)
          /\ retry' = r
          /\ exec' = [base EXCEPT !.pc = "running", !.timer = "armed",
                        !.progressInterval = TRUE, !.proc = "running"]
          /\ obs' = [obs EXCEPT !.mode = mode, !.calls = @ + 1,
                       !.spawned = @ + 1]

\* the progress interval fires while the child runs
executeCommand_progress ==
  /\ exec.progressInterval
  /\ obs.progress < MaxProgress
  /\ state' = [state EXCEPT !.loadingProgress =
                 Min(@ + LIMITS_PROGRESS_INCREMENT, LIMITS_PROGRESS_MAX)]
  /\ obs' = [obs EXCEPT !.progress = @ + 1]
  /\ UNCHANGED <<persisted, now, exec, retry, stream, poll, nav, deb, pure>>

\* the child ends by itself: execAsync resolves or rejects
executeCommand_childEnds ==
  /\ exec.pc = "running"
  /\ \E ev \in ProcessEnds :
       LET r == executeCommand_settle(state, exec.command, exec.options, ev, now)
           d == Deliver(r.st, exec.caller, r.result)
       IN /\ state' = d.st
          /\ retry' = d.retry
          /\ persisted' = HistoryManager_save(r.st.commandHistory)
          /\ exec' = [exec EXCEPT
                        !.pc = "done", !.proc = "exited", !.ev = ev,
                        !.path = IF ev.kind = "exit" /\ ev.code = 0
                                 THEN "ok" ELSE "failed",
                        \* clearTimeout(timeoutId) is on the try path only
                        !.timer = IF ev.kind = "exit" /\ ev.code = 0
                                  THEN "cleared" ELSE @,
                        !.progressInterval = FALSE,
                        !.result = <<r.result>>,
                        !.resets = @ + 1]
  /\ UNCHANGED <<now, stream, poll, obs, nav, deb, pure>>

\* the timeout fires while the child runs: controller.abort()
executeCommand_timeout ==
  /\ exec.pc = "running"
  /\ exec.timer = "armed"
  /\ LET r == executeCommand_settle(state, exec.command, exec.options, AbortEnd, now)
         d == Deliver(r.st, exec.caller, r.result)
     IN /\ state' = d.st
        /\ retry' = d.retry
        /\ persisted' = HistoryManager_save(r.st.commandHistory)
        /\ exec' = [exec EXCEPT
                      !.pc = "done", !.proc = "killed", !.ev = AbortEnd,
                      !.path = "timeout", !.timer = "fired",
                      !.progressInterval = FALSE,
                      !.result = <<r.result>>,
                      !.resets = @ + 1]
  /\ UNCHANGED <<now, stream, poll, obs, nav, deb, pure>>

\* the timeout left armed by the catch path fires after the call returned
executeCommand_lateTimeout ==
  /\ exec.pc = "done"
  /\ exec.timer = "armed"
  /\ exec' = [exec EXCEPT !.timer = "fired"]
  /\ UNCHANGED <<state, persisted, now, retry, stream, poll, obs, nav, deb, pure>>

\* setTimeout(() => actions.setLoadingProgress(0), RETRY_DELAY) of finally
executeCommand_progressReset ==
  /\ exec.resets > 0
  /\ state' = [state EXCEPT !.loadingProgress = 0]
  /\ exec' = [exec EXCEPT !.resets = @ - 1]
  /\ UNCHANGED <<persisted, now, retry, stream, poll, obs, nav, deb, pure>>

\* a caller invokes executeCommand directly
CallExecuteCommand ==
  /\ exec.pc \in {"idle", "done"}
  /\ obs.mode \in {"none", "simple"}
  /\ obs.calls < MaxCalls
  /\ \E command \in {CommandBuilder_listWorkspaces}, options \in OptionSets :
       executeCommand_call(command, options, "direct", retry, "simple")
  /\ UNCHANGED <<persisted, now, stream, poll, nav, deb, pure>>

\* maxRetries as passed by a caller: <<>> is null
MaxRetriesArgs == { <<>>, <<0>> }

\* the option objects the callers of executeCommandWithRetry pass
RetryOptionSets ==
  { [NoOptions EXCEPT !.timeout = TIMEOUTS_WORKSPACE_LOAD],
    [NoOptions EXCEPT !.timeout = TIMEOUTS_WORKSPACE_LOAD, !.skipCache = "true"] }

\* a caller invokes executeCommandWithRetry: the first attempt
CallExecuteCommandWithRetry ==
  /\ exec.pc \in {"idle", "done"}
  /\ retry.pc \in {"idle", "done"}
  /\ obs.mode \in {"none", "retry"}
  /\ \E command \in {CommandBuilder_listWorkspaces}, options \in RetryOptionSets,
        maxRetries \in MaxRetriesArgs :
       LET retries == IF maxRetries # <<>> THEN maxRetries[1]
                      ELSE IF state.config # <<>> THEN state.config[1].maxRetries
                      ELSE LIMITS_MAX_RETRIES
           r == [RetryIdle EXCEPT !.pc = "await", !.command = command,
                   !.options = options, !.retries = retries, !.calls = 1,
                   !.atCall = [appended |-> Len(state.commandHistory),
                               spawned |-> obs.spawned]]
       IN /\ obs.calls + retries + 1 <= MaxAttempts
          /\ executeCommand_call(command, [options EXCEPT !.skipCache = "false"],
                                 "retry", r, "retry")
  /\ UNCHANGED <<persisted, now, stream, poll, nav, deb, pure>>

\* the back-off delay of executeCommandWithRetry elapsed: the next attempt
executeCommandWithRetry_wake ==
  /\ retry.pc = "sleep"
  \* the progress reset of the attempt was set earlier, for a delay no longer
  /\ exec.resets = 0
  /\ LET r == [retry EXCEPT !.pc = "await", !.attempt = @ + 1, !.calls = @ + 1]
     IN executeCommand_call(retry.command,
                            [retry.options EXCEPT !.skipCache = "true"],
                            "retry", r, "retry")
  /\ UNCHANGED <<persisted, now, stream, poll, nav, deb, pure>>

-----------------------------------------------------------------------------
(* executeCommandWithStatusUpdates: useCommandExecution.ts *)

\* the option objects the callers pass: none, or { timeout: TIMEOUTS.JOB_RUN }
StreamOptionSets == { NoOptions, [NoOptions EXCEPT !.timeout = TIMEOUTS_JOB_RUN] }

StreamTimedOut == <<"Command timed out">>
StdoutChunks == { <<"out">>, <<"Completed", "\n">> }
StderrChunks == { <<" ">>, <<"warn">> }

\* '.'.repeat(n)
Dots(n) == [i \in 1..n |-> "."]

\* the text the status interval shows
RunningMessage(statusCount, elapsed) ==
  <<"Job is running">> \o Dots((statusCount % 3) + 1)
    \o <<" (", ToString(elapsed), "s elapsed)">>

\* Math.floor((Date.now() - startTime) / 1000)
ElapsedSeconds(startTime, t) == (t - startTime) \div 1000

\* the exit codes a close event may carry: <<>> is null (ended by a signal)
CloseCodes(child) ==
  IF child = "running" THEN { <<0>>, <<1>> }
  ELSE IF child = "killed" THEN { <<>>, <<0>>, <<1>> }
  ELSE { <<-2>> }

\* settled, value: the state of the promise the call returned
StreamIdle ==
  [ pc |-> "idle", command |-> "", options |-> NoOptions, startTime |-> 0,
    child |-> "none", statusInterval |-> FALSE, timer |-> "none",
    output |-> <<>>, error |-> <<>>, statusCount |-> 0, chunks |-> 0,
    closed |-> FALSE, code |-> <<>>, errored |-> FALSE,
    settled |-> "pending", value |-> <<>>, appendedAtCall |-> 0 ]

\* resolve(value) and reject(value): only the first call settles a promise
resolve(s, value) ==
  IF s.settled = "pending" THEN [s EXCEPT !.settled = "resolved", !.value = value]
  ELSE s

reject(s, value) ==
  IF s.settled = "pending" THEN [s EXCEPT !.settled = "rejected", !.value = value]
  ELSE s

\* the body of executeCommandWithStatusUpdates up to the return of the promise
CallExecuteCommandWithStatusUpdates ==
  /\ stream.pc = "idle"
  /\ obs.mode = "none"
  /\ \E command \in {CommandBuilder_job_runSync("ws1", "nb1.Notebook")},
        options \in StreamOptionSets :
       stream' = [StreamIdle EXCEPT
                    !.pc = "called", !.command = command, !.options = options,
                    !.startTime = now, !.child = "running",
                    !.statusInterval = TRUE,
                    !.timer = IF options.timeout # 0 THEN "armed" ELSE "none",
                    !.appendedAtCall = Len(state.commandHistory)]
  /\ state' = [state EXCEPT !.loading = TRUE, !.error = <<>>]
  /\ obs' = [obs EXCEPT !.mode = "stream", !.spawned = @ + 1]
  /\ UNCHANGED <<persisted, now, exec, retry, poll, nav, deb, pure>>

\* the callback of statusInterval
StatusUpdates_statusInterval ==
  /\ stream.statusInterval
  /\ stream.statusCount < MaxStatusTicks
  /\ stream' = [stream EXCEPT !.statusCount = @ + 1]
  /\ state' = [state EXCEPT !.output =
                 RunningMessage(stream.statusCount + 1,
                                ElapsedSeconds(stream.startTime, now))]
  /\ UNCHANGED <<persisted, now, exec, retry, poll, obs, nav, deb, pure>>

\* child.stdout.on('data')
StatusUpdates_stdoutData ==
  /\ stream.child \in {"running", "killed"}
  /\ ~stream.closed
  /\ stream.chunks < MaxChunks
  /\ \E chunk \in StdoutChunks :
       stream' = [stream EXCEPT !.output = @ \o chunk, !.chunks = @ + 1]
  /\ UNCHANGED <<state, persisted, now, exec, retry, poll, obs, nav, deb, pure>>

\* child.stderr.on('data')
StatusUpdates_stderrData ==
  /\ stream.child \in {"running", "killed"}
  /\ ~stream.closed
  /\ stream.chunks < MaxChunks
  /\ \E chunk \in StderrChunks :
       stream' = [stream EXCEPT !.error = @ \o chunk, !.chunks = @ + 1]
  /\ UNCHANGED <<state, persisted, now, exec, retry, poll, obs, nav, deb, pure>>

\* the result the close handler builds
StatusUpdates_result(s, code, t) ==
  [ success |-> code = <<0>> /\ Trim(s.error) = <<>>,
    output |-> cleanOutput(s.output),
    error |-> Trim(s.error),
    command |-> s.command,
    duration |-> ElapsedSeconds(s.startTime, t) ]

\* how the close handler settles the promise
StatusUpdates_closeSettle(s, code, result) ==
  IF code = <<0>> THEN resolve(s, result)
  ELSE reject(s, IF s.error # <<>> THEN s.error
                 ELSE <<"Command exited with code ",
                        IF code = <<>> THEN "null" ELSE ToString(code[1])>>)

\* child.on('close')
StatusUpdates_close ==
  /\ stream.child \in {"running", "killed", "unspawned"}
  /\ ~stream.closed
  /\ \E code \in CloseCodes(stream.child) :
       LET result == StatusUpdates_result(stream, code, now)
           st1 == [state EXCEPT !.loading = FALSE]
           st2 == addToHistory(st1, stream.command, result, now)
           s1 == [stream EXCEPT !.statusInterval = FALSE, !.closed = TRUE,
                    !.code = code, !.child = "exited"]
       IN /\ state' = st2
          /\ persisted' = HistoryManager_save(st2.commandHistory)
          /\ stream' = StatusUpdates_closeSettle(s1, code, result)
  /\ UNCHANGED <<now, exec, retry, poll, obs, nav, deb, pure>>

\* child.on('error'): the child could not be spawned
StatusUpdates_error ==
  /\ stream.child \in {"running", "killed"}
  /\ ~stream.closed
  /\ ~stream.errored
  /\ stream.chunks = 0
  /\ stream' = reject([stream EXCEPT !.statusInterval = FALSE,
                         !.errored = TRUE, !.child = "unspawned"],
                      <<"spawn ENOENT">>)
  /\ state' = [state EXCEPT !.loading = FALSE,
                 !.error = ErrorExecuting(<<"spawn ENOENT">>)]
  /\ UNCHANGED <<persisted, now, exec, retry, poll, obs, nav, deb, pure>>

\* the callback of setTimeout(..., options.timeout); the timer is never cleared
StatusUpdates_timeout ==
  /\ stream.timer = "armed"
  /\ stream' = reject([stream EXCEPT !.statusInterval = FALSE,
                         !.timer = "fired",
                         !.child = IF @ = "running" THEN "killed" ELSE @],
                      StreamTimedOut)
  /\ state' = [state EXCEPT !.loading = FALSE, !.error = StreamTimedOut]
  /\ UNCHANGED <<persisted, now, exec, retry, poll, obs, nav, deb, pure>>

\* time passes
Tick ==
  /\ now < MaxTime
  /\ now' = now + 1
  /\ UNCHANGED <<state, persisted, exec, retry, stream, poll, obs, nav, deb, pure>>

-----------------------------------------------------------------------------
(* Background jobs and the job poller: useWeaveState, useJobPolling *)

CommandBuilder_job_status(workspace, itemName, jobId) ==
  "fab job run-status /" \o workspace \o ".Workspace/" \o itemName
    \o " --id " \o jobId

\* `${workspace}/${notebook}`
JobKey(workspace, notebook) == workspace \o "/" \o notebook

\* actions.addActiveJob
addActiveJob(st, jobId, workspace, notebook, t) ==
  [st EXCEPT !.activeJobs =
     Append(@, [jobId |-> jobId, workspace |-> workspace,
                notebook |-> notebook, startTime |-> t])]

\* markJobCompleted that also takes the job off the active-jobs list
markJobCompleted_removesJob(st, workspace, notebook) ==
  LET Other(job) == job.workspace # workspace \/ job.notebook # notebook
  IN [st EXCEPT !.completedJobs = @ \cup {JobKey(workspace, notebook)},
                !.activeJobs = SelectSeq(@, Other)]

\* actions.markJobCompleted
markJobCompleted(st, workspace, notebook) ==
  [st EXCEPT !.completedJobs = @ \cup {JobKey(workspace, notebook)}]

\* text.split('\n')
RECURSIVE SplitLines(_)
SplitLines(s) ==
  IF \A i \in 1..Len(s) : s[i] # "\n" THEN <<s>>
  ELSE LET i == CHOOSE k \in 1..Len(s) :
                  s[k] = "\n" /\ \A j \in 1..(k - 1) : s[j] # "\n"
       IN <<SubSeq(s, 1, i - 1)>> \o SplitLines(SubSeq(s, i + 1, Len(s)))

\* tokens of the tool's job table: a GUID, the header words, the status words
GuidToken == "0f8fad5b-d9cb-469f-a165-70867728950e"
HeaderTokens == {"id", "itemId"}
StatusTokens ==
  {"InProgress", "Completed", "Failed", "NotStarted", "Succeeded",
   "completed", "failed"}

\* the first element of s that is in S, as <<element>>, or <<>>
RECURSIVE FirstIn(_, _)
FirstIn(s, S) ==
  IF s = <<>> THEN <<>>
  ELSE IF Head(s) \in S THEN <<Head(s)>> ELSE FirstIn(Tail(s), S)

\* the parts of a timestamp the pattern of parseJobStatus matches: date,
\* separator, time and an optional zone; Render gives the text
TimestampParts ==
  [sep : {" ", "T"}, time : {"10:00:00", "11:00:00"}, zone : {"", "Z", "+01:00"}]
Render(ts) == "2024-01-01" \o ts.sep \o ts.time \o ts.zone
TimestampTokens == {Render(ts) : ts \in TimestampParts}

\* .replace(' ', 'T'), and 'Z' appended unless the text holds a Z or ends
\* with an offset
NormaliseTimestamp(token) ==
  LET ts == CHOOSE r \in TimestampParts : Render(r) = token
  IN Render([ts EXCEPT !.sep = IF @ = " " THEN "T" ELSE @,
                       !.zone = IF @ = "" THEN "Z" ELSE @])

\* the body of the loop for a line that holds a GUID: the status word in the
\* letter case of the input, and the first and the last timestamp
parseJobStatus_dataLine(line) ==
  LET statusMatch == FirstIn(line, StatusTokens)
      IsTimestamp(token) == token \in TimestampTokens
      timestamps == SelectSeq(line, IsTimestamp)
      last == timestamps[Len(timestamps)]
  IN [ status |-> IF statusMatch # <<>> THEN statusMatch[1] ELSE "Unknown",
       startTime |-> IF timestamps # <<>>
                     THEN <<NormaliseTimestamp(timestamps[1])>> ELSE <<>>,
       endTime |-> IF Len(timestamps) > 1 /\ last # timestamps[1]
                   THEN <<NormaliseTimestamp(last)>> ELSE <<>> ]

\* the loop of parseJobStatus: the first line that is not blank, not a
\* header line and holds a GUID is parsed and ends the loop; null is <<>>
RECURSIVE parseJobStatusLines(_)
parseJobStatusLines(lines) ==
  IF lines = <<>> THEN [status |-> "Unknown", startTime |-> <<>>, endTime |-> <<>>]
  ELSE LET line == Head(lines)
       IN IF Trim(line) = <<>> \/ FirstIn(line, HeaderTokens) # <<>>
          THEN parseJobStatusLines(Tail(lines))
          ELSE IF FirstIn(line, {GuidToken}) # <<>>
               THEN parseJobStatus_dataLine(line)
               ELSE parseJobStatusLines(Tail(lines))

\* parseJobStatus without its last test
parseJobStatus_noFinalTest(output) == parseJobStatusLines(SplitLines(output))

\* ParsingUtils.parseJobStatus (jobType, which nothing reads, left out)
parseJobStatus(output) ==
  LET statusInfo == parseJobStatusLines(SplitLines(output))
  IN IF statusInfo.endTime = statusInfo.startTime
     THEN [statusInfo EXCEPT !.endTime = <<>>]
     ELSE statusInfo

\* the statuses pollJobStatuses takes for terminal
TerminalStatuses == {"Completed", "Succeeded", "Failed"}

\* what the tool prints for a job in status w
StatusTable(w) ==
  <<"id", " ", "status", "\n", GuidToken, " ", w, "\n">>

\* how the child of a status query ends
StatusEnds ==
  [kind : {"exit"}, code : {0},
   stdout : {StatusTable("InProgress"), StatusTable("Completed"),
             StatusTable("Failed"), StatusTable("failed")},
   stderr : {<<>>}]
  \cup
  [kind : {"exit"}, code : {1}, stdout : {<<>>}, stderr : {<<"warn", " ">>}]

\* the options FabricService.getJobStatus passes to executeCommand
StatusOptions == [NoOptions EXCEPT !.skipCache = "true"]

\* the item the n-th background job is started on
JobItem(n) == [name |-> "nb" \o ToString(n) \o ".Notebook", workspace |-> "ws1"]

\* intervalRef: a repeating timer is armed; isPollingRef: the ref of that
\* name; jobs: the activeJobs of the render whose effect armed the timer;
\* deps: activeJobs.length when the effect last ran; batch: the status queries
\* of the tick in flight; lastTick: what the last firing of the timer did;
\* queries, started: status queries and start commands issued so far;
\* starting: the item whose start command is in flight, as <<item>>;
\* startEv: how the child of the last start command ended;
\* added: the job ids addActiveJob was called with; terminal: the job ids a
\* poll has observed a terminal status for
PollIdle ==
  [ mounted |-> TRUE, intervalRef |-> FALSE, isPollingRef |-> FALSE,
    jobs |-> <<>>, deps |-> 0, batch |-> <<>>, lastTick |-> "none",
    queries |-> 0, started |-> 0, starting |-> <<>>, startEv |-> AbortEnd,
    added |-> {}, terminal |-> {} ]

\* pollJobStatuses without the test of isPollingRef
pollJobStatuses_noGuard(p, st, jobs) ==
  IF jobs = <<>>
  THEN [poll |-> p, st |-> st, spawned |-> 0]
  ELSE [ poll |-> [p EXCEPT
                     !.isPollingRef = TRUE,
                     !.queries = @ + Len(jobs),
                     !.batch = [i \in 1..Len(jobs) |->
                                  [job |-> jobs[i], pc |-> "running",
                                   ev |-> AbortEnd, reported |-> <<>>]]],
         st |-> executeCommand_begin(st),
         spawned |-> Len(jobs) ]

\* pollJobStatuses up to its await: the guard and the start of every query
pollJobStatuses(p, st, jobs) ==
  IF p.isPollingRef \/ jobs = <<>>
  THEN [poll |-> p, st |-> st, spawned |-> 0]
  ELSE [ poll |-> [p EXCEPT
                     !.isPollingRef = TRUE,
                     !.queries = @ + Len(jobs),
                     !.batch = [i \in 1..Len(jobs) |->
                                  [job |-> jobs[i], pc |-> "running",
                                   ev |-> AbortEnd, reported |-> <<>>]]],
         st |-> executeCommand_begin(st),
         spawned |-> Len(jobs) ]

\* the effect of useJobPolling after a render with State st
useJobPolling_effect(p, st) ==
  IF p.deps = Len(st.activeJobs) THEN [poll |-> p, st |-> st, spawned |-> 0]
  ELSE LET cleared == [p EXCEPT !.intervalRef = FALSE,
                         !.deps = Len(st.activeJobs)]
       IN IF Len(st.activeJobs) > 0
          THEN LET r == pollJobStatuses(cleared, st, st.activeJobs)
               IN [r EXCEPT !.poll = [@ EXCEPT !.intervalRef = TRUE,
                                        !.jobs = st.activeJobs]]
          ELSE [poll |-> cleared, st |-> st, spawned |-> 0]

\* pollJobStatuses_report without the test of the status
pollJobStatuses_report_anyStatus(st, job, result) ==
  IF result.success
  THEN LET statusInfo == parseJobStatus(result.output)
       IN [ st |-> markJobCompleted(st, job.workspace, job.notebook),
            reported |-> <<statusInfo.status>> ]
  ELSE [st |-> st, reported |-> <<>>]

\* the map callback of pollJobStatuses after its query returned result
pollJobStatuses_report(st, job, result) ==
  IF result.success
  THEN LET statusInfo == parseJobStatus(result.output)
       IN [ st |-> IF statusInfo.status \in TerminalStatuses
                   THEN markJobCompleted(st, job.workspace, job.notebook)
                   ELSE st,
            reported |-> <<statusInfo.status>> ]
  ELSE [st |-> st, reported |-> <<>>]

\* isPollingRef once Promise.allSettled has been awaited for the batch
pollJobStatuses_stuckOnFailure(batch) ==
  \/ \E i \in DOMAIN batch : batch[i].pc = "running"
  \/ \E i \in DOMAIN batch : batch[i].reported = <<>>

\* isPollingRef after a query of the batch ended: the finally block runs
\* when every query has ended
pollJobStatuses_pending(batch) ==
  \E i \in DOMAIN batch : batch[i].pc = "running"

CommandBuilder_job_start(workspace, itemName) ==
  "fab job start " \o workspace \o ".Workspace/" \o itemName

\* the options FabricService.startJob passes to executeCommand
StartOptions == [NoOptions EXCEPT !.silent = "true"]

\* the job id the tool gives the n-th start command: a fresh one each time
JobIdOf(n) == "a" \o ToString(n)

\* tokens that match [a-f0-9-]+, and the two halves of the confirmation
\* phrase in the spellings the tool may use (the pattern ignores case)
HexTokens == {JobIdOf(n) : n \in 1..MaxJobs}
PhraseOpen == {"Job instance '", "job instance '"}
PhraseClose == {"' created", "' Created"}

\* ParsingUtils.extractJobId: the id inside the first confirmation phrase,
\* as <<id>>, or <<>> (null)
extractJobId(output) ==
  LET at == {i \in 1..(Len(output) - 2) :
               /\ output[i] \in PhraseOpen
               /\ output[i + 1] \in HexTokens
               /\ output[i + 2] \in PhraseClose}
  IN IF at = {} THEN <<>>
     ELSE <<output[(CHOOSE i \in at : \A k \in at : i <= k) + 1]>>

\* how the child of the n-th start command ends
StartEnds(n) ==
  [kind : {"exit"}, code : {0},
   stdout : {<<"Job instance '", JobIdOf(n), "' created", "\n">>,
             <<"Job queued", "\n">>},
   stderr : {<<>>}]
  \cup
  [kind : {"exit"}, code : {0},
   stdout : {<<"job instance '", JobIdOf(n), "' created", "\n">>},
   stderr : {<<"warn", " ">>}]
  \cup
  [kind : {"exit"}, code : {1}, stdout : {<<>>}, stderr : {<<"[NotFound]">>}]
  \cup
  {AbortEnd}

StartingMessage == <<"Starting job in background...">>
StartedMessage(jobId) ==
  <<"Job started successfully in background", "\n\n", "Job ID: ", jobId>>
FailedToStart(message) == <<"Failed to start job: ">> \o message

\* startJob without the test of the job id for null
startJob_anyOutput(workspace, itemName, result, t) ==
  IF ~result.success
  THEN [ok |-> FALSE,
        message |-> <<"Failed to start job: ">> \o
                      (IF result.error # <<>> THEN result.error
                       ELSE <<"Unknown error">>)]
  ELSE LET jobId == extractJobId(result.output)
       IN [ok |-> TRUE,
           job |-> [jobId |-> IF jobId = <<>> THEN "" ELSE jobId[1],
                    workspace |-> workspace, notebook |-> itemName,
                    startTime |-> t]]

\* FabricService.startJob after executeCommand returned result: the JobInfo
\* it returns, or the message of the Error it throws
startJob(workspace, itemName, result, t) ==
  IF ~result.success
  THEN [ok |-> FALSE,
        message |-> <<"Failed to start job: ">> \o
                      (IF result.error # <<>> THEN result.error
                       ELSE <<"Unknown error">>)]
  ELSE LET jobId == extractJobId(result.output)
       IN IF jobId = <<>>
          THEN [ok |-> FALSE,
                message |-> <<"Failed to extract job ID from output">>]
          ELSE [ok |-> TRUE,
                job |-> [jobId |-> jobId[1], workspace |-> workspace,
                         notebook |-> itemName, startTime |-> t]]

\* action 0 of handleItemActionSelection up to its await, on the item the
\* user selected: the Output view, the starting message, and executeCommand
\* up to the spawn of its child (every start is a command of its own, which
\* the cache holds no result for)
handleItemActionSelection_startJob ==
  /\ poll.mounted
  /\ poll.starting = <<>>
  /\ poll.started < MaxJobs
  /\ \E item \in {JobItem(poll.started + 1)} :
       LET st1 == [state EXCEPT !.currentView = VIEWS_OUTPUT,
                                !.currentItem = <<item>>,
                                !.output = StartingMessage]
       IN /\ executeCommand_lookup(st1, CommandBuilder_job_start(item.workspace,
                                     item.name), StartOptions, now) = <<>>
          /\ state' = executeCommand_begin(st1)
          /\ poll' = [poll EXCEPT !.started = @ + 1, !.starting = <<item>>]
          /\ obs' = [obs EXCEPT !.spawned = @ + 1]
  /\ UNCHANGED <<persisted, now, exec, retry, stream, nav, deb, pure>>

\* the child of the start command ended: executeCommand returns, then
\* FabricService.startJob, then the rest of action 0, then the effect of the
\* render that follows
startJob_ends ==
  /\ poll.mounted
  /\ poll.starting # <<>>
  /\ poll.isPollingRef \/ poll.queries + Len(state.activeJobs) + 1 <= MaxQueries
  /\ \E ev \in StartEnds(poll.started) :
       LET item == poll.starting[1]
           command == CommandBuilder_job_start(item.workspace, item.name)
           r == executeCommand_settle(state, command, StartOptions, ev, now)
           j == startJob(item.workspace, item.name, r.result, now)
           st1 == IF j.ok
                  THEN [addActiveJob(r.st, j.job.jobId, j.job.workspace,
                                     j.job.notebook, now)
                          EXCEPT !.output = StartedMessage(j.job.jobId)]
                  ELSE [r.st EXCEPT !.output = FailedToStart(j.message)]
           p1 == [poll EXCEPT !.starting = <<>>, !.startEv = ev,
                    !.added = IF j.ok THEN @ \cup {j.job.jobId} ELSE @]
           e == useJobPolling_effect(p1, st1)
       IN /\ state' = e.st
          /\ persisted' = HistoryManager_save(r.st.commandHistory)
          /\ poll' = e.poll
          /\ obs' = [obs EXCEPT !.spawned = @ + e.spawned]
  /\ UNCHANGED <<now, exec, retry, stream, nav, deb, pure>>

\* the repeating timer fires: pollJobStatuses of the render that armed it
pollJobStatuses_tick ==
  /\ poll.intervalRef
  /\ poll.isPollingRef \/ poll.queries + Len(poll.jobs) <= MaxQueries
  /\ LET r == pollJobStatuses(poll, state, poll.jobs)
     IN /\ state' = r.st
        /\ poll' = [r.poll EXCEPT
                      !.lastTick = IF poll.isPollingRef THEN "skipped"
                                   ELSE "started"]
        /\ obs' = [obs EXCEPT !.spawned = @ + r.spawned]
  /\ UNCHANGED <<persisted, now, exec, retry, stream, nav, deb, pure>>

\* the executeCommand call of one status query returns
getJobStatus_ends ==
  /\ poll.mounted
  /\ \E i \in DOMAIN poll.batch, ev \in StatusEnds :
       LET q == poll.batch[i]
           command == CommandBuilder_job_status(q.job.workspace, q.job.notebook,
                                                q.job.jobId)
           r == executeCommand_settle(state, command, StatusOptions, ev, now)
           d == pollJobStatuses_report(r.st, q.job, r.result)
           batch == [poll.batch EXCEPT ![i] =
                       [@ EXCEPT !.pc = "done", !.ev = ev,
                                 !.reported = d.reported]]
       IN /\ q.pc = "running"
          /\ state' = d.st
          /\ persisted' = HistoryManager_save(r.st.commandHistory)
          /\ poll' = [poll EXCEPT !.batch = batch,
                        !.isPollingRef = pollJobStatuses_pending(batch),
                        !.terminal =
                           IF d.reported # <<>> /\ d.reported[1] \in TerminalStatuses
                           THEN @ \cup {q.job.jobId} ELSE @]
  /\ UNCHANGED <<now, exec, retry, stream, obs, nav, deb, pure>>

\* a key handler returns to the Main menu: setCurrentView(MAIN), resetState()
returnToMain ==
  /\ poll.mounted
  /\ state.activeJobs # <<>>
  /\ LET e == useJobPolling_effect(poll, resetState(state))
     IN /\ state' = e.st
        /\ poll' = e.poll
  /\ UNCHANGED <<persisted, now, exec, retry, stream, obs, nav, deb, pure>>

\* the component unmounts: the cleanup functions of both effects
unmount ==
  /\ poll.mounted
  /\ poll.started > 0
  /\ poll' = [poll EXCEPT !.mounted = FALSE, !.intervalRef = FALSE]
  /\ UNCHANGED <<state, persisted, now, exec, retry, stream, obs, nav, deb, pure>>

-----------------------------------------------------------------------------
(* Listings: commandBuilder.ts, parsing.ts, fabricService.ts *)

CommandBuilder_listWorkspace(workspace) ==
  "fab ls \"" \o workspace \o ".Workspace\""
CommandBuilder_moveItem(fromWorkspace, toWorkspace, itemName) ==
  "fab mv -f \"/" \o fromWorkspace \o ".Workspace/" \o itemName \o "\" \"/"
    \o toWorkspace \o ".Workspace/" \o itemName \o "\""
CommandBuilder_copyItem(fromWorkspace, toWorkspace, itemName) ==
  "fab cp -f \"/" \o fromWorkspace \o ".Workspace/" \o itemName \o "\" \"/"
    \o toWorkspace \o ".Workspace/" \o itemName \o "\""

\* the string a sequence of tokens spells
RECURSIVE Join(_)
Join(s) == IF s = <<>> THEN "" ELSE Head(s) \o Join(Tail(s))

\* ParsingUtils.parseLines with its default filters
\* the third pattern, a box-drawing rule, is written ---
SkipPatterns == {"Listing", "ID", "---"}
parseLines(output) ==
  LET lines == SplitLines(output)
      trimmed == [i \in DOMAIN lines |-> Trim(lines[i])]
      Keep(line) == line # <<>> /\ Head(line) \notin SkipPatterns
  IN SelectSeq(trimmed, Keep)

\* line.split('.')[0]
BeforeDot(line) ==
  IF \E i \in DOMAIN line : line[i] = "."
  THEN SubSeq(line, 1, (CHOOSE i \in DOMAIN line :
                          line[i] = "." /\ \A k \in 1..(i - 1) : line[k] # ".") - 1)
  ELSE line

\* ParsingUtils.parseWorkspaces: the names, as strings
parseWorkspaces(output) ==
  LET lines == parseLines(output)
      names == [i \in DOMAIN lines |-> Trim(BeforeDot(lines[i]))]
      Keep(name) == name # <<>>
      kept == SelectSeq(names, Keep)
  IN [i \in DOMAIN kept |-> Join(kept[i])]

\* item.endsWith('.' + type)
EndsWithType(line, type) ==
  Len(line) >= 2 /\ line[Len(line) - 1] = "." /\ line[Len(line)] = type

\* ParsingUtils.parseWorkspaceItems
parseWorkspaceItems(output) ==
  LET lines == parseLines(output)
  IN [i \in DOMAIN lines |->
        [ name |-> Join(lines[i]),
          isNotebook |-> EndsWithType(lines[i], "Notebook"),
          isDataPipeline |-> EndsWithType(lines[i], "DataPipeline"),
          isSparkJobDefinition |-> EndsWithType(lines[i], "SparkJobDefinition") ]]

\* supportsJobActions that takes every item
supportsJobActions_always(item) == TRUE

\* ParsingUtils.supportsJobActions of a WorkspaceItem
supportsJobActions(item) ==
  item.isNotebook \/ item.isDataPipeline \/ item.isSparkJobDefinition

\* what the tool prints for `fab ls` and for `fab ls "<workspace>.Workspace"`
WorkspacesListing ==
  <<"ws1", ".", "Workspace", "\n", "ws2", ".", "Workspace", "\n">>
ItemsListing ==
  <<"nb1", ".", "Notebook", "\n", "rep1", ".", "Report", "\n">>

\* what `fab ls` prints once workspace ws2 has been deleted
WorkspacesListingLater ==
  <<"ws1", ".", "Workspace", "\n">>

\* how the child of a command of the given kind ends; the workspaces of the
\* tenant are ws1 and ws2, and ws2 may be gone once time has passed
NavEnds(kind) ==
  [kind : {"exit"}, code : {0},
   stdout : {IF kind \in {"menu", "destinations", "refresh"}
               THEN IF now = 0 THEN WorkspacesListing ELSE WorkspacesListingLater
             ELSE IF kind = "items" THEN ItemsListing
             ELSE IF kind = "startJob"
                  THEN <<"Job instance '", "a1", "' created", "\n">>
                  ELSE <<"done", "\n">>},
   stderr : {<<>>}]
  \cup
  [kind : {"exit"}, code : {1}, stdout : {<<>>}, stderr : {<<"[NotFound]">>}]

\* the Error FabricService throws when result.success is false
FailedTo(what, result) ==
  <<"Failed to ", what, ": ">> \o
    (IF result.error # <<>> THEN result.error ELSE <<"Unknown error">>)
-----------------------------------------------------------------------------
(* Key handling: navigation.ts, useInputHandlers.ts, the App component *)

\* the key events ink delivers that a handler tests
Keys == {"upArrow", "downArrow", "return", "escape", "q", "r", "c"}

\* handleNavigation without the test against maxIndex
handleNavigation_noUpperTest(key, currentIndex, maxIndex) ==
  IF key = "upArrow" /\ currentIndex > 0 THEN currentIndex - 1
  ELSE IF key = "downArrow" THEN currentIndex + 1
  ELSE currentIndex

\* handleNavigation: the index the setter is called with, or the index kept
handleNavigation(key, currentIndex, maxIndex) ==
  IF key = "upArrow" /\ currentIndex > 0 THEN currentIndex - 1
  ELSE IF key = "downArrow" /\ currentIndex < maxIndex THEN currentIndex + 1
  ELSE currentIndex

\* what a handler did: the State it left, whether the process exits, and the
\* command it awaits, as <<op>>; item, arg and moving are the values the
\* closure of the handler holds for its continuation
Handled(st) == [st |-> st, exit |-> FALSE, op |-> <<>>]
Exits(st) == [st |-> st, exit |-> TRUE, op |-> <<>>]
Awaits(st, kind, command, options, arg) ==
  [ st |-> st, exit |-> FALSE,
    op |-> <<[ kind |-> kind, command |-> command, options |-> options,
               item |-> st.currentItem, arg |-> arg,
               moving |-> st.isMovingItem ]>> ]

\* state.workspaces[index] as a template renders it: an index past the end
\* of the array reads undefined
workspaceAt(st, index) ==
  IF index + 1 \in DOMAIN st.workspaces THEN st.workspaces[index + 1]
  ELSE "undefined"

\* setCommandHistory that leaves the history as it is
setCommandHistory_keeps(st, history) == st

\* actions.setCommandHistory
setCommandHistory(st, history) == [st EXCEPT !.commandHistory = history]

\* setCurrentItem that leaves the current item as it is
setCurrentItem_keeps(st, item) == st

\* actions.setCurrentItem
setCurrentItem(st, item) == [st EXCEPT !.currentItem = item]

\* availableWorkspaces without the filter
availableWorkspaces_all(st) == st.workspaces

\* the workspaces other than the one of the current item
availableWorkspaces(st) ==
  LET Other(ws) == st.currentItem = <<>> \/ ws # st.currentItem[1].workspace
  IN SelectSeq(st.workspaces, Other)

\* menuOptions: Workspaces, Manual Interactive Shell, Command History, Exit
handleMenuSelection(st) ==
  IF st.selectedOption \in {1, 3} THEN Exits(st)
  ELSE IF st.selectedOption = 2
       THEN Handled([st EXCEPT !.currentView = VIEWS_COMMAND_HISTORY])
       ELSE Awaits([st EXCEPT !.currentView = VIEWS_WORKSPACES,
                              !.workspaces = <<>>,
                              !.selectedWorkspace = 0],
                   "menu", CommandBuilder_listWorkspaces, NoOptions, "")

handleWorkspaceSelection(st) ==
  IF st.workspaces = <<>> THEN Handled(st)
  ELSE LET selectedWorkspaceName == workspaceAt(st, st.selectedWorkspace)
       IN Awaits([st EXCEPT !.currentView = VIEWS_WORKSPACE_ITEMS,
                            !.workspaceItems = <<>>,
                            !.selectedWorkspaceItem = 0,
                            !.loading = FALSE,
                            !.error = <<>>],
                 "items", CommandBuilder_listWorkspace(selectedWorkspaceName),
                 NoOptions, selectedWorkspaceName)

DoesNotSupport(itemName) ==
  <<"Selected item \"", itemName, "\" does not support job actions.">>

handleWorkspaceItemSelection(st) ==
  IF st.workspaceItems = <<>> THEN Handled(st)
  \* selectedItem undefined: selectedItem.name throws before any update
  ELSE IF st.selectedWorkspaceItem + 1 \notin DOMAIN st.workspaceItems
  THEN Handled(st)
  ELSE LET selectedItem == st.workspaceItems[st.selectedWorkspaceItem + 1]
           selectedWorkspaceName == workspaceAt(st, st.selectedWorkspace)
       IN IF supportsJobActions(selectedItem)
          THEN Handled([st EXCEPT
                          !.currentItem = <<[name |-> selectedItem.name,
                                             workspace |-> selectedWorkspaceName]>>,
                          !.selectedItemAction = 0,
                          !.currentView = VIEWS_ITEM_ACTIONS])
          ELSE Handled([st EXCEPT !.error = DoesNotSupport(selectedItem.name),
                                  !.currentView = VIEWS_OUTPUT])

\* the six actions: start, run, details, move, copy, return
handleItemActionSelection(st) ==
  IF st.currentItem = <<>> THEN Handled(st)
  ELSE LET item == st.currentItem[1]
           a == st.selectedItemAction
       IN IF a = 0
          THEN Awaits([st EXCEPT !.currentView = VIEWS_OUTPUT,
                                 !.output = StartingMessage],
                      "startJob",
                      CommandBuilder_job_start(item.workspace, item.name),
                      StartOptions, "")
          ELSE IF a = 1
          THEN Awaits([st EXCEPT !.currentView = VIEWS_OUTPUT,
                                 !.output = <<"Starting synchronous job execution...",
                                              "\n">>],
                      "runSync",
                      CommandBuilder_job_runSync(item.workspace, item.name),
                      [NoOptions EXCEPT !.timeout = TIMEOUTS_JOB_RUN], "")
          ELSE IF a = 2
          THEN Awaits([st EXCEPT !.currentView = VIEWS_OUTPUT,
                                 !.output = <<"Getting job details...">>],
                      "jobDetails", "", NoOptions, "")
          ELSE IF a \in {3, 4}
          THEN Awaits([st EXCEPT !.currentView = VIEWS_WORKSPACE_SELECTION,
                                 !.selectedDestinationWorkspace = 0,
                                 !.isMovingItem = (a = 3)],
                      "destinations", CommandBuilder_listWorkspaces, NoOptions, "")
          ELSE IF a = 5
          THEN Handled([st EXCEPT !.currentView = VIEWS_WORKSPACE_ITEMS,
                                  !.selectedItemAction = 0,
                                  !.currentItem = <<>>])
          ELSE Handled(st)

handleDestinationWorkspaceSelection(st) ==
  IF st.currentItem = <<>> \/ st.workspaces = <<>> THEN Handled(st)
  ELSE LET item == st.currentItem[1]
           available == availableWorkspaces(st)
       IN IF st.selectedDestinationWorkspace >= Len(available)
          THEN Handled([st EXCEPT !.currentView = VIEWS_ITEM_ACTIONS,
                                  !.selectedDestinationWorkspace = 0])
          ELSE LET destinationWorkspace ==
                     available[st.selectedDestinationWorkspace + 1]
               IN Awaits([st EXCEPT
                            !.currentView = VIEWS_OUTPUT,
                            !.output = <<IF st.isMovingItem THEN "Moving "
                                         ELSE "Copying ",
                                         item.name, " to ", destinationWorkspace,
                                         "...">>],
                         "move",
                         IF st.isMovingItem
                         THEN CommandBuilder_moveItem(item.workspace,
                                destinationWorkspace, item.name)
                         ELSE CommandBuilder_copyItem(item.workspace,
                                destinationWorkspace, item.name),
                         StartOptions, destinationWorkspace)

\* the tokens by which the handler recognises a cool-down error
CooldownMarks ==
  {"ItemDisplayNameNotAvailableYet", "not available yet",
   "is expected to become available"}

\* the rest of a handler after its command returned result: the
\* FabricService method (FabricService.copyItem is taken to be as moveItem)
\* and the code that follows the await
Continue(st, op, result, t) ==
  IF op.kind \in {"menu", "refresh"}
  THEN IF result.success
       THEN [st EXCEPT !.workspaces = parseWorkspaces(result.output)]
       ELSE [st EXCEPT !.error = FailedTo("list workspaces", result)]
  ELSE IF op.kind = "destinations"
  THEN IF result.success
       THEN [st EXCEPT !.workspaces = parseWorkspaces(result.output)]
       ELSE [st EXCEPT !.error = FailedTo("list workspaces", result),
                       !.currentView = VIEWS_OUTPUT]
  ELSE IF op.kind = "items"
  THEN IF result.success
       THEN [st EXCEPT !.workspaceItems = parseWorkspaceItems(result.output),
                       !.loading = FALSE,
                       !.loadingProgress = 0]
       ELSE [st EXCEPT !.error = FailedTo("list items in " \o op.arg, result),
                       !.loading = FALSE,
                       !.loadingProgress = 0,
                       !.currentView = VIEWS_WORKSPACES]
  ELSE IF op.kind = "startJob"
  THEN LET j == startJob(op.item[1].workspace, op.item[1].name, result, t)
       IN IF j.ok
          THEN [addActiveJob(st, j.job.jobId, j.job.workspace, j.job.notebook, t)
                  EXCEPT !.output = StartedMessage(j.job.jobId)]
          ELSE [st EXCEPT !.output = FailedToStart(j.message)]
  ELSE IF op.kind = "move"
  THEN LET operation == IF op.moving THEN "move" ELSE "copy"
       IN IF result.success
          THEN LET shown ==
                     [st EXCEPT
                        !.output = <<"Successfully ", operation, " ",
                                     op.item[1].name, "From: ",
                                     op.item[1].workspace, "To: ", op.arg>>]
               IN IF op.moving THEN setCurrentItem(shown, <<>>) ELSE shown
          ELSE LET errorMessage == FailedTo(operation \o " item", result)
               IN IF \E i \in DOMAIN errorMessage : errorMessage[i] \in CooldownMarks
                  THEN [st EXCEPT
                          !.error = <<>>,
                          !.output = <<"Item ", operation,
                                       " failed: Item is not available yet">>]
                  ELSE [st EXCEPT
                          !.error = <<>>,
                          !.output = <<"Failed to ", operation, " item: ">>
                                       \o errorMessage]
  ELSE st

\* createInputHandlers: the handler of the current view, applied to a key
createInputHandlers(st, key) ==
  LET quit == key \in {"escape", "q"}
      v == st.currentView
  IN IF v = VIEWS_MAIN
     THEN LET st1 == [st EXCEPT !.selectedOption = handleNavigation(key, @, 3)]
          IN IF key = "return" THEN handleMenuSelection(st1)
             ELSE IF quit THEN Exits(st1)
             ELSE Handled(st1)
     ELSE IF v = VIEWS_WORKSPACES
     THEN LET st1 == [st EXCEPT !.selectedWorkspace =
                        handleNavigation(key, @, Len(st.workspaces))]
          IN IF key = "return"
             THEN IF st.selectedWorkspace = Len(st.workspaces)
                  THEN Handled(resetState([st1 EXCEPT !.currentView = VIEWS_MAIN]))
                  ELSE handleWorkspaceSelection(st1)
             ELSE IF quit
                  THEN Handled(resetState([st1 EXCEPT !.currentView = VIEWS_MAIN]))
                  ELSE IF key = "r"
                       THEN Awaits(st1, "debounce", "", NoOptions, "")
                       ELSE Handled(st1)
     ELSE IF v = VIEWS_WORKSPACE_ITEMS
     THEN IF quit
          THEN Handled([st EXCEPT !.currentView = VIEWS_WORKSPACES,
                                  !.workspaceItems = <<>>,
                                  !.selectedWorkspaceItem = 0])
          ELSE LET st1 == [st EXCEPT !.selectedWorkspaceItem =
                             handleNavigation(key, @, Len(st.workspaceItems))]
               IN IF key = "return"
                  THEN IF st.selectedWorkspaceItem = Len(st.workspaceItems)
                       THEN Handled([st1 EXCEPT !.currentView = VIEWS_WORKSPACES,
                                                !.workspaceItems = <<>>,
                                                !.selectedWorkspaceItem = 0])
                       ELSE handleWorkspaceItemSelection(st1)
                  ELSE Handled(st1)
     ELSE IF v = VIEWS_ITEM_ACTIONS
     THEN LET st1 == [st EXCEPT !.selectedItemAction = handleNavigation(key, @, 5)]
          IN IF key = "return" THEN handleItemActionSelection(st1)
             ELSE IF quit
                  THEN Handled([st1 EXCEPT !.currentView = VIEWS_WORKSPACE_ITEMS,
                                           !.selectedItemAction = 0,
                                           !.currentItem = <<>>])
                  ELSE Handled(st1)
     ELSE IF v = VIEWS_WORKSPACE_SELECTION
     THEN IF st.currentItem = <<>> THEN Handled(st)
          ELSE LET st1 == [st EXCEPT !.selectedDestinationWorkspace =
                             handleNavigation(key, @, Len(availableWorkspaces(st)))]
               IN IF key = "return" THEN handleDestinationWorkspaceSelection(st1)
                  ELSE IF quit
                       THEN Handled([st1 EXCEPT
                                       !.currentView = VIEWS_ITEM_ACTIONS,
                                       !.selectedDestinationWorkspace = 0])
                       ELSE Handled(st1)
     ELSE IF v = VIEWS_JOB_MENU
     THEN LET st1 == [st EXCEPT !.selectedJobOption = handleNavigation(key, @, 2)]
          IN IF key = "return"
             THEN Awaits(st1, "handleJobMenuSelection", "", NoOptions, "")
             ELSE IF quit
                  THEN Handled([st1 EXCEPT !.currentView = VIEWS_WORKSPACE_ITEMS,
                                           !.currentJob = <<>>,
                                           !.selectedJobOption = 0])
                  ELSE Handled(st1)
     ELSE IF v = VIEWS_JOB_STATUS
     THEN IF key = "return" \/ quit
          THEN Handled([st EXCEPT !.currentView = VIEWS_JOB_MENU])
          ELSE IF key = "r"
               THEN Awaits(st, "checkJobStatus", "", NoOptions, "")
               ELSE Handled(st)
     ELSE IF v = VIEWS_COMMAND_HISTORY
     THEN IF quit THEN Handled([st EXCEPT !.currentView = VIEWS_MAIN])
          ELSE IF key = "c" THEN Handled(setCommandHistory(st, <<>>))
               ELSE Handled(st)
     ELSE IF v = VIEWS_OUTPUT
     THEN IF quit
          THEN IF st.currentItem # <<>>
               THEN Handled([st EXCEPT !.currentView = VIEWS_ITEM_ACTIONS])
               ELSE IF st.workspaces # <<>>
                       /\ st.selectedWorkspace < Len(st.workspaces)
                    THEN handleWorkspaceSelection(
                           [st EXCEPT !.currentView = VIEWS_WORKSPACE_ITEMS])
                    ELSE Handled(resetState([st EXCEPT !.currentView = VIEWS_MAIN]))
          ELSE Handled(st)
     ELSE IF quit THEN Handled(resetState([st EXCEPT !.currentView = VIEWS_MAIN]))
          ELSE Handled(st)

\* the useInput callback of the App component
useInput(st, key) ==
  IF st.inInteractiveMode THEN Handled(st)
  ELSE LET h == createInputHandlers(st, key)
       IN IF key = "q" /\ st.currentView = VIEWS_MAIN
          THEN [h EXCEPT !.exit = TRUE]
          ELSE h

\* exited: the process has exited; pending: the commands whose child runs,
\* each with the closure of its handler; spawned: commands spawned so far;
\* timeoutRef, isExecutingRef: the refs of the debounced refreshWorkspaces;
\* returned: the command whose handler continued in the last step, with its
\* result and the view and lists the continuation found
NavIdle ==
  [ exited |-> FALSE, pending |-> <<>>, spawned |-> 0,
    timeoutRef |-> FALSE, isExecutingRef |-> FALSE, returned |-> <<>> ]

\* the handlers whose commands are followed in SpecExec and SpecPoll, or
\* whose views no handler leads to
NotFollowed ==
  {"runSync", "jobDetails", "handleJobMenuSelection", "checkJobStatus"}

\* a handler calls executeCommand(op.command, op.options) and awaits it: a
\* cache hit returns at once and the handler continues, else the child is
\* spawned; n is nav as the caller leaves it
executeCommand_await(st, op, n) ==
  LET cached == executeCommand_lookup(st, op.command, op.options, now)
  IN IF cached # <<>>
     THEN /\ op.kind = "startJob" => Len(st.activeJobs) < MaxJobs
          /\ state' = Continue(executeCommand_hit(st, op.options, cached[1]),
                               op, cached[1], now)
          /\ nav' = [n EXCEPT !.isExecutingRef =
                       IF op.kind = "refresh" THEN FALSE ELSE @]
     ELSE /\ n.spawned < MaxCommands
          /\ Len(n.pending) < MaxPending
          /\ state' = executeCommand_begin(st)
          /\ nav' = [n EXCEPT !.pending = Append(@, op), !.spawned = @ + 1]

\* ink delivers a key event to the useInput callback
useInput_key ==
  /\ ~nav.exited
  /\ \E key \in Keys :
       LET h == useInput(state, key)
           n == [nav EXCEPT !.returned = <<>>]
       IN /\ persisted' = IF state.currentView = VIEWS_COMMAND_HISTORY
                             /\ key = "c" /\ ~state.inInteractiveMode
                          THEN HistoryManager_save(<<>>) ELSE persisted
          /\ IF h.exit
             THEN /\ state' = h.st
                  /\ nav' = [n EXCEPT !.exited = TRUE]
             ELSE IF h.op = <<>>
                  THEN /\ state' = h.st
                       /\ nav' = n
                  ELSE IF h.op[1].kind = "debounce"
                       \* clearTimeout, then a new timer unless executing
                       THEN /\ state' = h.st
                            /\ nav' = [n EXCEPT !.timeoutRef = ~nav.isExecutingRef]
                       ELSE /\ h.op[1].kind \notin NotFollowed
                            /\ executeCommand_await(h.st, h.op[1], n)
  /\ UNCHANGED <<now, exec, retry, stream, poll, obs, deb, pure>>

\* the timer of the debounced refreshWorkspaces fires
useDebouncedAsync_timeout ==
  /\ ~nav.exited
  /\ nav.timeoutRef
  /\ IF nav.isExecutingRef
     THEN /\ nav' = [nav EXCEPT !.timeoutRef = FALSE, !.returned = <<>>]
          /\ state' = state
     ELSE executeCommand_await(
            state,
            Awaits(state, "refresh", CommandBuilder_listWorkspaces, NoOptions, "").op[1],
            [nav EXCEPT !.timeoutRef = FALSE, !.isExecutingRef = TRUE,
                        !.returned = <<>>])
  /\ UNCHANGED <<persisted, now, exec, retry, stream, poll, obs, deb, pure>>

\* the child of a pending command ends: executeCommand returns and the
\* handler that awaited it continues
executeCommand_returns ==
  /\ ~nav.exited
  /\ \E i \in DOMAIN nav.pending :
       LET op == nav.pending[i]
       IN \E ev \in NavEnds(op.kind) :
            LET r == executeCommand_settle(state, op.command, op.options, ev, now)
            IN /\ state' = Continue(r.st, op, r.result, now)
               /\ persisted' = HistoryManager_save(r.st.commandHistory)
               /\ nav' = [nav EXCEPT
                            !.pending = SubSeq(@, 1, i - 1) \o SubSeq(@, i + 1, Len(@)),
                            !.isExecutingRef =
                               IF op.kind = "refresh" THEN FALSE ELSE @,
                            !.returned =
                               <<[ op |-> op, success |-> r.result.success,
                                   currentView |-> state.currentView,
                                   currentItem |-> state.currentItem,
                                   workspaces |-> state.workspaces,
                                   workspaceItems |-> state.workspaceItems ]>>]
               /\ exec' = [exec EXCEPT !.resets = @ + 1]
  /\ UNCHANGED <<now, retry, stream, poll, obs, deb, pure>>

-----------------------------------------------------------------------------
(* Debouncing: useDebounced and useDebouncedAsync *)

\* the arguments a debounced function is called with
DebounceArgs == {"a", "b"}

\* useDebouncedAsync: timeoutRef is the live timer, as <<promise>>, the
\* index of the promise whose executor set it; promises are the promises
\* returned so far with the arguments of their call; invoked are the
\* promises whose timer invoked the callback; running is the promise whose
\* callback has not settled. useDebounced: syncTimeoutRef is the live
\* timer, as <<call>>; syncCalls the arguments of the calls; syncInvoked
\* the calls whose timer invoked the callback
DebounceIdle ==
  [ timeoutRef |-> <<>>, isExecutingRef |-> FALSE, running |-> <<>>,
    promises |-> <<>>, invoked |-> <<>>,
    syncTimeoutRef |-> <<>>, syncCalls |-> <<>>, syncInvoked |-> <<>> ]

\* the callback useDebounced returns is called with args
useDebounced_call ==
  /\ Len(deb.syncCalls) < MaxTriggers
  /\ \E args \in DebounceArgs :
       deb' = [deb EXCEPT !.syncCalls = Append(@, args),
                          !.syncTimeoutRef = <<Len(deb.syncCalls) + 1>>]
  /\ UNCHANGED <<state, persisted, now, exec, retry, stream, poll, obs, nav, pure>>

\* the timer of useDebounced fires
useDebounced_timeout ==
  /\ deb.syncTimeoutRef # <<>>
  /\ deb' = [deb EXCEPT !.syncInvoked = Append(@, deb.syncTimeoutRef[1]),
                        !.syncTimeoutRef = <<>>]
  /\ UNCHANGED <<state, persisted, now, exec, retry, stream, poll, obs, nav, pure>>

\* the executor of a call that keeps the timer of the call before it
useDebouncedAsync_executor_noClear(d, args) ==
  LET p == Len(d.promises) + 1
  IN IF d.isExecutingRef
     THEN [d EXCEPT !.promises = Append(@, [args |-> args, settled |-> TRUE])]
     ELSE [d EXCEPT !.promises = Append(@, [args |-> args, settled |-> FALSE]),
                    !.timeoutRef = IF @ = <<>> THEN <<p>> ELSE @]

\* useDebouncedAsync: the executor of the promise a call returns
useDebouncedAsync_executor(d, args) ==
  LET p == Len(d.promises) + 1
      cleared == [d EXCEPT !.timeoutRef = <<>>]
  IN IF d.isExecutingRef
     THEN [cleared EXCEPT !.promises = Append(@, [args |-> args, settled |-> TRUE])]
     ELSE [cleared EXCEPT !.promises = Append(@, [args |-> args, settled |-> FALSE]),
                          !.timeoutRef = <<p>>]

\* the function useDebouncedAsync returns is called with args
useDebouncedAsync_call ==
  /\ Len(deb.promises) < MaxTriggers
  /\ \E args \in DebounceArgs : deb' = useDebouncedAsync_executor(deb, args)
  /\ UNCHANGED <<state, persisted, now, exec, retry, stream, poll, obs, nav, pure>>

\* the timer of useDebouncedAsync fires: the callback is invoked
useDebouncedAsync_fires ==
  /\ deb.timeoutRef # <<>>
  /\ LET p == deb.timeoutRef[1]
     IN deb' = IF deb.isExecutingRef
               THEN [deb EXCEPT !.timeoutRef = <<>>, !.promises[p].settled = TRUE]
               ELSE [deb EXCEPT !.timeoutRef = <<>>, !.isExecutingRef = TRUE,
                                !.running = <<p>>, !.invoked = Append(@, p)]
  /\ UNCHANGED <<state, persisted, now, exec, retry, stream, poll, obs, nav, pure>>

\* the callback returns or throws: resolve(), then finally
useDebouncedAsync_settles ==
  /\ deb.running # <<>>
  /\ deb' = [deb EXCEPT !.promises[deb.running[1]].settled = TRUE,
                        !.running = <<>>, !.isExecutingRef = FALSE]
  /\ UNCHANGED <<state, persisted, now, exec, retry, stream, poll, obs, nav, pure>>

-----------------------------------------------------------------------------
(* Parsing functions applied to the text of the tool *)

\* pc: idle, then the function that was applied; text: its argument;
\* result: what it returned
PureIdle == [pc |-> "idle", text |-> <<>>, result |-> <<>>]

\* the characters of the texts cleanOutput is applied to
CleanAlphabet == {ESC, "[", "0", ";", "m", "\r", "\n", " "}

\* the texts over alphabet A of n characters at most
Texts(A, n) == UNION {[1..k -> A] : k \in 0..n}

\* the sequences of timestamps a data line may hold
TimestampRuns ==
  Texts(TimestampTokens, 2) \cup
  [1..3 -> {Render([sep |-> " ", time |-> "10:00:00", zone |-> ""]),
            Render([sep |-> "T", time |-> "10:00:00", zone |-> "Z"]),
            Render([sep |-> "T", time |-> "11:00:00", zone |-> "Z"])}]

\* the job tables parseJobStatus may be given: an optional header line, then
\* a line with or without a GUID, a status word and timestamps
StatusOutputs ==
  { header \o guid \o word \o run \o <<"\n">> :
      header \in {<<>>, <<"id", "status", "\n">>},
      guid \in {<<>>, <<GuidToken>>},
      word \in {<<>>, <<"Completed">>, <<"completed">>, <<"InProgress">>},
      run \in TimestampRuns }

\* the output of a status query is parsed: ParsingUtils.parseJobStatus(text)
parseJobStatus_call ==
  /\ pure.pc = "idle"
  /\ pure.text \in StatusOutputs
  /\ pure' = [pure EXCEPT !.pc = "parseJobStatus", !.result = parseJobStatus(pure.text)]
  /\ UNCHANGED <<state, persisted, now, exec, retry, stream, poll, obs, nav, deb>>

\* the output of a child is cleaned: ParsingUtils.cleanOutput(text)
cleanOutput_call ==
  /\ pure.pc = "idle"
  /\ pure.text \in Texts(CleanAlphabet, MaxText)
  /\ pure' = [pure EXCEPT !.pc = "cleanOutput", !.result = cleanOutput(pure.text)]
  /\ UNCHANGED <<state, persisted, now, exec, retry, stream, poll, obs, nav, deb>>

-----------------------------------------------------------------------------
(* Initial states *)

\* config.json as loadConfig may return it; cacheTimeout 0 is an absent field
Configs ==
  { <<>> } \cup
  { <<[cacheTimeout |-> c, maxRetries |-> m, theme |-> "default"]>> :
      <<c, m>> \in {<<1, 1>>} }

\* mode: the execution mode the run exercises; calls, spawned, progress:
\* executeCommand calls, subprocesses spawned, progress interval firings
ObsInit == [mode |-> "none", calls |-> 0, spawned |-> 0, progress |-> 0]

InitWith(config) ==
  /\ state = [createInitialState EXCEPT !.config = config]
  /\ persisted = <<>>
  /\ now = 0
  /\ exec = ExecIdle
  /\ retry = RetryIdle
  /\ stream = StreamIdle
  /\ poll = PollIdle
  /\ obs = ObsInit
  /\ nav = NavIdle
  /\ deb = DebounceIdle
  /\ pure = PureIdle

Init == \E config \in Configs : InitWith(config)

-----------------------------------------------------------------------------
(* The three execution modes; a run exercises one of them *)

NextExec ==
  \/ CallExecuteCommand
  \/ CallExecuteCommandWithRetry
  \/ executeCommandWithRetry_wake
  \/ executeCommand_progress
  \/ executeCommand_childEnds
  \/ executeCommand_timeout
  \/ executeCommand_lateTimeout
  \/ executeCommand_progressReset
  \/ CallExecuteCommandWithStatusUpdates
  \/ StatusUpdates_statusInterval
  \/ StatusUpdates_stdoutData
  \/ StatusUpdates_stderrData
  \/ StatusUpdates_close
  \/ StatusUpdates_error
  \/ StatusUpdates_timeout
  \/ Tick

SpecExec == Init /\ [][NextExec]_vars

-----------------------------------------------------------------------------
(* The job poller *)

NextPoll ==
  \/ handleItemActionSelection_startJob
  \/ startJob_ends
  \/ pollJobStatuses_tick
  \/ getJobStatus_ends
  \/ returnToMain
  \/ unmount

SpecPoll == Init /\ [][NextPoll]_vars

-----------------------------------------------------------------------------
(* Navigation: key events and the commands the handlers await *)

NextNav ==
  \/ useInput_key
  \/ useDebouncedAsync_timeout
  \/ executeCommand_returns
  \/ executeCommand_progressReset

\* the navigation does not read config.json: the run without one
SpecNav == InitWith(<<>>) /\ [][NextNav]_vars

\* the navigation while time passes, with a config.json whose cacheTimeout
\* the clock can exceed: cached listings expire and are fetched again
NextReload == NextNav \/ Tick

SpecReload ==
  InitWith(<<[cacheTimeout |-> 1, maxRetries |-> 1, theme |-> "default"]>>)
    /\ [][NextReload]_vars

-----------------------------------------------------------------------------
(* The command history: HistoryManager.load at startup, then appends *)

\* history.json as save left it: n entries, the newest first
HistoryManager_load(n) ==
  [i \in 1..n |-> [command |-> "fab ls", timestamp |-> 0 - i,
                   success |-> TRUE, output |-> <<"out">>]]

\* the lengths of the loaded history the runs start from
LoadedLengths == {0, 1, LIMITS_HISTORY_SIZE - 1, LIMITS_HISTORY_SIZE}

InitHistory ==
  /\ \E n \in LoadedLengths :
       /\ state = [createInitialState EXCEPT !.commandHistory = HistoryManager_load(n)]
       /\ persisted = HistoryManager_load(n)
  /\ now = 0
  /\ exec = ExecIdle
  /\ retry = RetryIdle
  /\ stream = StreamIdle
  /\ poll = PollIdle
  /\ obs = ObsInit
  /\ nav = NavIdle
  /\ deb = DebounceIdle
  /\ pure = PureIdle

\* a command has ended with result: actions.addToHistory(command, result)
addToHistory_call ==
  /\ obs.calls < MaxAppends
  /\ \E command \in {CommandBuilder_listWorkspaces, CommandBuilder_listWorkspace("ws1")},
        success \in BOOLEAN, output \in {<<>>, <<"out">>} :
       LET result == [success |-> success, output |-> output]
       IN state' = addToHistory(state, command, result, now)
  /\ persisted' = HistoryManager_save(state'.commandHistory)
  /\ obs' = [obs EXCEPT !.calls = @ + 1]
  /\ UNCHANGED <<now, exec, retry, stream, poll, nav, deb, pure>>

NextHistory == addToHistory_call \/ Tick

SpecHistory == InitHistory /\ [][NextHistory]_vars

-----------------------------------------------------------------------------
(* The debounce hooks on their own *)

NextDebounce ==
  \/ useDebounced_call
  \/ useDebounced_timeout
  \/ useDebouncedAsync_call
  \/ useDebouncedAsync_fires
  \/ useDebouncedAsync_settles

SpecDebounce == InitWith(<<>>) /\ [][NextDebounce]_vars

-----------------------------------------------------------------------------
(* The parsing functions on their own, each on the texts it may be given *)

InitPure ==
  /\ pure \in [pc : {"idle"},
               text : Texts(CleanAlphabet, MaxText) \cup StatusOutputs,
               result : {<<>>}]
  /\ state = createInitialState
  /\ persisted = <<>>
  /\ now = 0
  /\ exec = ExecIdle
  /\ retry = RetryIdle
  /\ stream = StreamIdle
  /\ poll = PollIdle
  /\ obs = ObsInit
  /\ nav = NavIdle
  /\ deb = DebounceIdle

NextPure ==
  \/ cleanOutput_call
  \/ parseJobStatus_call

SpecPure == InitPure /\ [][NextPure]_vars

-----------------------------------------------------------------------------
(* Properties *)

\* s is empty or white space only
Blank(s) == \A i \in 1..Len(s) : s[i] \in WhiteSpace

\* history entries appended since n entries were in the history
AppendedSince(n) == Len(state.commandHistory) - n

\* C2: executeCommandWithRetry with maxRetries = k, when every attempt fails,
\* makes exactly k + 1 calls of executeCommand (never more than k + 1 in any
\* case), returns success = false, and leaves the error message
\* "Command failed after <k + 1> attempts: ...".
C2_RetryExhausted ==
  /\ retry.pc # "idle" => retry.calls <= retry.retries + 1
  /\ (retry.pc = "done" /\ retry.failed = retry.calls) =>
       /\ retry.calls = retry.retries + 1
       /\ retry.result # <<>>
       /\ ~retry.result[1].success
       /\ Len(state.error) >= 2
       /\ state.error[1] = "Command failed after "
       /\ state.error[2] = ToString(retry.retries + 1)

C2_Witness ==
  /\ retry.pc = "done"
  /\ retry.retries = 2
  /\ retry.failed = 3
  /\ retry.calls = 3

\* the status word the tool printed in the job table of a status query
PrintedStatus(ev) == ev.stdout[7]

\* C3: in one poll tick, every status query that succeeds has its status
\* reported and, when that status is terminal, its job marked completed,
\* whether or not another query of the same tick failed; the tick is in
\* progress exactly while one of its queries is still running, so it finishes
\* when the last query has ended, however each ended, and the next firing of
\* the timer polls again.
C3_FailureDoesNotBlockBatch ==
  /\ \A i \in DOMAIN poll.batch :
       LET q == poll.batch[i]
       IN (q.pc = "done" /\ q.ev.code = 0 /\ Blank(q.ev.stderr)) =>
            /\ q.reported = <<PrintedStatus(q.ev)>>
            /\ (/\ PrintedStatus(q.ev) \in {"Completed", "Succeeded", "Failed"}
                /\ \E j \in DOMAIN state.activeJobs :
                     state.activeJobs[j] = q.job) =>
                 (q.job.workspace \o "/" \o q.job.notebook)
                    \in state.completedJobs
  /\ poll.isPollingRef <=>
       \E i \in DOMAIN poll.batch : poll.batch[i].pc = "running"

C3_Witness ==
  /\ Len(poll.batch) = 2
  /\ ~poll.isPollingRef
  /\ \E i, j \in DOMAIN poll.batch :
       /\ poll.batch[i].pc = "done"
       /\ poll.batch[i].ev.code = 1
       /\ poll.batch[i].reported = <<>>
       /\ poll.batch[j].pc = "done"
       /\ poll.batch[j].reported = <<"Completed">>
       /\ (poll.batch[j].job.workspace \o "/" \o poll.batch[j].job.notebook)
            \in state.completedJobs

\* C4: the repeating poll timer is armed only while a background job exists
\* that has not been observed with a terminal status, and it is not armed
\* after teardown.
C4_PollerOnlyWhilePending ==
  /\ poll.intervalRef =>
       \E i \in DOMAIN state.activeJobs :
         (state.activeJobs[i].workspace \o "/" \o state.activeJobs[i].notebook)
            \notin state.completedJobs
  /\ ~poll.mounted => ~poll.intervalRef

\* C5 as stated: every invocation of any of the three modes appends exactly
\* one history entry, whatever its outcome.
C5_OneEntryPerInvocation ==
  /\ (exec.pc = "done" /\ exec.caller = "direct") =>
       AppendedSince(exec.atCall.appended) = 1
  /\ retry.pc = "done" => AppendedSince(retry.atCall.appended) = 1
  /\ stream.settled # "pending" => AppendedSince(stream.appendedAtCall) = 1

\* C5 (amended): a history entry is appended once per subprocess that ended.
\* executeCommand appends exactly one entry when it is not answered from the
\* cache, whatever the outcome, and none on a cache hit; executeCommandWithRetry
\* appends one entry per attempt that ran a subprocess, at most maxRetries + 1;
\* executeCommandWithStatusUpdates appends one entry when the close event of
\* its child arrives and none before.
C5_OneEntryPerSubprocess ==
  /\ exec.pc = "running" => AppendedSince(exec.atCall.appended) = 0
  /\ exec.pc = "done" =>
       AppendedSince(exec.atCall.appended) = IF exec.path = "hit" THEN 0 ELSE 1
  /\ retry.pc = "done" =>
       /\ AppendedSince(retry.atCall.appended) = obs.spawned - retry.atCall.spawned
       /\ AppendedSince(retry.atCall.appended) \in {retry.calls - 1, retry.calls}
       /\ AppendedSince(retry.atCall.appended) <= retry.retries + 1
  /\ stream.pc = "called" =>
       AppendedSince(stream.appendedAtCall) = IF stream.closed THEN 1 ELSE 0

C5_Witness ==
  /\ retry.pc = "done"
  /\ retry.calls = 3
  /\ exec.path = "timeout"
  /\ AppendedSince(retry.atCall.appended) = 3

\* C6: an invocation with a timeout has exactly one terminal outcome: a
\* success is never accompanied by the timeout error, before or after, and a
\* timeout that fires kills the child.
C6_OneTerminalOutcome ==
  /\ exec.path = "ok" => exec.timer = "cleared"
  /\ exec.path = "timeout" =>
       /\ ~exec.result[1].success
       /\ exec.proc = "killed"
  /\ stream.timer = "fired" =>
       /\ stream.settled = "rejected"
       /\ stream.child # "running"

\* C7: in streaming mode a non-zero exit code or non-blank stderr rejects;
\* the promise resolves only on exit code 0 with blank stderr, so a resolved
\* result has success = true.
C7_ResolvedMeansSuccess ==
  /\ stream.settled = "resolved" =>
       /\ stream.code = <<0>>
       /\ Blank(stream.error)
       /\ stream.value.success
  /\ (stream.closed /\ (stream.code # <<0>> \/ ~Blank(stream.error))) =>
       stream.settled = "rejected"

\* C8: executeCommand always returns a result (it never rejects); the result
\* has success = true exactly when the child exited with code 0 and its stderr
\* is empty or white space, and a cached result is such a success; every other
\* ending is returned with success = false.
C8_ResultNeverRejects ==
  exec.pc = "done" =>
    /\ exec.result # <<>>
    /\ exec.path = "hit" => exec.result[1].success
    /\ exec.path # "hit" =>
         (exec.result[1].success <=>
            (exec.ev.kind = "exit" /\ exec.ev.code = 0 /\ Blank(exec.ev.stderr)))

C8_Witness ==
  /\ exec.pc = "done"
  /\ exec.path = "ok"
  /\ exec.ev.stderr = <<" ">>
  /\ exec.result[1].success

C10_CacheHitShortCircuits ==
  exec.pc = "done" =>
    /\ (~SkipCache(exec.options) /\ exec.atCall.fresh) =>
         /\ exec.path = "hit"
         /\ exec.result =
              <<exec.atCall.cache[CacheKey(exec.command, exec.options)].data>>
         /\ obs.spawned = exec.atCall.spawned
         /\ AppendedSince(exec.atCall.appended) = 0
    /\ SkipCache(exec.options) =>
         /\ exec.path # "hit"
         /\ obs.spawned = exec.atCall.spawned + 1
         /\ state.cache = exec.atCall.cache

C10_Witness ==
  /\ exec.pc = "done"
  /\ exec.path = "hit"
  /\ exec.caller = "direct"
  /\ obs.spawned = 1

\* C11: a refresh of the workspace list, i.e. executeCommandWithRetry called
\* with skipCache: true, is never answered from the result cache: once it
\* has returned, at least one subprocess was spawned for it.
C11_RefreshNeverFromCache ==
  (retry.pc = "done" /\ SkipCache(retry.options)) =>
     obs.spawned > retry.atCall.spawned

\* C12: a listing, i.e. executeCommand called without options as
\* FabricService.listWorkspaces and listWorkspaceItems call it, is never
\* served from a cache: once it has returned, a subprocess was spawned for it.
C12_ListingNeverFromCache ==
  (exec.pc = "done" /\ exec.caller = "direct" /\ exec.options = NoOptions) =>
     obs.spawned > exec.atCall.spawned

\* C13: executeCommand called with silent = true leaves the output and error
\* fields of the State as they were when it was called, while it runs and
\* after it returned a result, on every path.
C13_SilentLeavesOutputAndError ==
  (exec.pc \in {"running", "done"} /\ exec.caller = "direct"
     /\ Silent(exec.options)) =>
     /\ state.output = exec.atCall.output
     /\ state.error = exec.atCall.error
     /\ exec.pc = "done" => exec.result # <<>>

\* status queries of the poller whose child has not ended
InFlight == {i \in DOMAIN poll.batch : poll.batch[i].pc = "running"}

Printed(q, w) ==
  /\ q.ev.kind = "exit" /\ q.ev.code = 0 /\ Blank(q.ev.stderr)
  /\ PrintedStatus(q.ev) = w

\* C15: when a status query of the poller ends, the key workspace/item of
\* its job is added to completedJobs if the tool printed Completed,
\* Succeeded or Failed, and completedJobs is left as it was otherwise
\* (another status, or a query that failed); no other step of the poller
\* adds a key.
C15_CompletedIffTerminal ==
  [][/\ \A i \in DOMAIN poll.batch :
          (/\ poll.batch[i].pc = "running"
           /\ i \in DOMAIN poll'.batch
           /\ poll'.batch[i].pc = "done") =>
             LET q == poll'.batch[i]
             IN state'.completedJobs =
                  IF \E w \in {"Completed", "Succeeded", "Failed"} : Printed(q, w)
                  THEN state.completedJobs
                         \cup {q.job.workspace \o "/" \o q.job.notebook}
                  ELSE state.completedJobs
     /\ (\A i \in DOMAIN poll.batch :
           poll.batch[i].pc = "running" =>
             i \in DOMAIN poll'.batch /\ poll'.batch[i].pc = "running") =>
          state'.completedJobs \subseteq state.completedJobs]_vars

C15_Witness ==
  \E i, j \in DOMAIN poll.batch :
    /\ Printed(poll.batch[i], "Failed")
    /\ (poll.batch[i].job.workspace \o "/" \o poll.batch[i].job.notebook)
         \in state.completedJobs
    /\ Printed(poll.batch[j], "InProgress")
    /\ (poll.batch[j].job.workspace \o "/" \o poll.batch[j].job.notebook)
         \notin state.completedJobs

\* C16: a job that was added to activeJobs is in activeJobs as long as no
\* poll has observed a terminal status for it.
C16_ActiveUntilTerminal ==
  \A id \in poll.added :
    \/ id \in poll.terminal
    \/ \E i \in DOMAIN state.activeJobs : state.activeJobs[i].jobId = id

\* the child of a start command exited successfully, without stderr, and
\* printed the confirmation phrase
Confirmed(ev) ==
  /\ ev.kind = "exit" /\ ev.code = 0 /\ Blank(ev.stderr)
  /\ Len(ev.stdout) >= 3
  /\ ev.stdout[1] = "Job instance '" /\ ev.stdout[3] = "' created"

\* C17: when a start command ends, a job is appended to activeJobs, with
\* the id the tool printed, only if the command succeeded and printed the
\* confirmation phrase; otherwise activeJobs is unchanged and the output is
\* a message that begins "Failed to start job: ". No other step of the
\* poller lengthens activeJobs.
C17_JobAddedOnlyOnConfirmedStart ==
  [][IF poll.starting # <<>> /\ poll'.starting = <<>>
     THEN LET ev == poll'.startEv
              item == poll.starting[1]
          IN IF Confirmed(ev)
             THEN /\ state'.activeJobs =
                       Append(state.activeJobs,
                              [jobId |-> ev.stdout[2], workspace |-> item.workspace,
                               notebook |-> item.name, startTime |-> now])
                  /\ state'.output[1] = "Job started successfully in background"
             ELSE /\ state'.activeJobs = state.activeJobs
                  /\ state'.output[1] = "Failed to start job: "
                  /\ Len(state'.output) >= 2
     ELSE Len(state'.activeJobs) <= Len(state.activeJobs)]_vars

C17_Witness ==
  /\ poll.started = 2
  /\ poll.starting = <<>>
  /\ poll.startEv.stdout = <<"Job queued", "\n">>
  /\ poll.added = {"a1"}
  /\ Len(state.activeJobs) = 1
  /\ state.output =
       <<"Failed to start job: ", "Failed to extract job ID from output">>

\* the selection cursor and the maximum index of the view st shows
CursorOf(st) ==
  CASE st.currentView = VIEWS_MAIN -> st.selectedOption
    [] st.currentView = VIEWS_WORKSPACES -> st.selectedWorkspace
    [] st.currentView = VIEWS_WORKSPACE_ITEMS -> st.selectedWorkspaceItem
    [] st.currentView = VIEWS_ITEM_ACTIONS -> st.selectedItemAction
    [] st.currentView = VIEWS_WORKSPACE_SELECTION -> st.selectedDestinationWorkspace
    [] st.currentView = VIEWS_JOB_MENU -> st.selectedJobOption
    [] OTHER -> 0

MaxIndexOf(st) ==
  CASE st.currentView = VIEWS_MAIN -> 3
    [] st.currentView = VIEWS_WORKSPACES -> Len(st.workspaces)
    [] st.currentView = VIEWS_WORKSPACE_ITEMS -> Len(st.workspaceItems)
    [] st.currentView = VIEWS_ITEM_ACTIONS -> 5
    [] st.currentView = VIEWS_WORKSPACE_SELECTION ->
         Len(SelectSeq(st.workspaces,
                       LAMBDA ws : st.currentItem = <<>>
                                     \/ ws # st.currentItem[1].workspace))
    [] st.currentView = VIEWS_JOB_MENU -> 2
    [] OTHER -> 0

\* an Up or Down key event in State st moves the cursor by at most one, not
\* below 0 and not above the maximum index, and keeps the view
ArrowsKeepCursor(st) ==
  \A key \in {"upArrow", "downArrow"} :
    LET c == CursorOf(st)
        n == MaxIndexOf(st)
        h == useInput(st, key)
        c2 == CursorOf(h.st)
    IN /\ h.st.currentView = st.currentView
       /\ ~h.exit
       /\ c2 - c \in {-1, 0, 1}
       /\ (key = "upArrow" /\ c = 0) => c2 = c
       /\ (key = "downArrow" /\ c >= n) => c2 = c
       /\ c \in 0..n => c2 \in 0..n

\* C1: in every list view and every fixed menu, an Up or Down key event
\* changes the selection cursor by at most 1, leaves it unchanged at 0 (Up)
\* and at the maximum index N (Down), and keeps a cursor that is within
\* [0, N] within [0, N]. The JobMenu view, which no handler leads to, is
\* checked on every cursor position of its menu.
C1_CursorStaysInRange ==
  /\ ArrowsKeepCursor(state)
  /\ \A c \in 0..2 :
       ArrowsKeepCursor([state EXCEPT !.currentView = VIEWS_JOB_MENU,
                                      !.selectedJobOption = c])

C1_Witness ==
  /\ state.currentView = VIEWS_WORKSPACES
  /\ Len(state.workspaces) = 2
  /\ state.selectedWorkspace = 2
  /\ state.selectedOption = 0

\* the listed items that can run as jobs, by their names
RunsAsJob(name) == name \in {"nb1.Notebook"}

\* C18: Return in the WorkspaceItems view on an item that does not support
\* job actions sets a non-empty error, shows the Output view and leaves the
\* current item and the view ItemActions alone; on an item that does, it
\* sets the current item to that item, the action cursor to 0 and shows the
\* ItemActions view.
C18_ItemSelection ==
  (/\ state.currentView = VIEWS_WORKSPACE_ITEMS
   /\ state.selectedWorkspaceItem < Len(state.workspaceItems)) =>
     LET item == state.workspaceItems[state.selectedWorkspaceItem + 1]
         h == useInput(state, "return")
     IN IF RunsAsJob(item.name)
        THEN /\ h.st.currentView = VIEWS_ITEM_ACTIONS
             /\ h.st.currentItem # <<>>
             /\ h.st.currentItem[1].name = item.name
             /\ h.st.currentItem[1].workspace
                  = workspaceAt(state, state.selectedWorkspace)
             /\ h.st.selectedItemAction = 0
        ELSE /\ h.st.currentView = VIEWS_OUTPUT
             /\ h.st.error # <<>>
             /\ h.st.currentItem = state.currentItem
             /\ h.op = <<>>

C18_Witness ==
  /\ state.currentView = VIEWS_WORKSPACE_ITEMS
  /\ Len(state.workspaceItems) = 2
  /\ state.selectedWorkspaceItem = 1
  /\ ~RunsAsJob(state.workspaceItems[2].name)
  /\ state.currentItem = <<>>

\* C19: Return on the back entry of a list view shows the parent view,
\* empties the list of the view and resets its cursor to 0: Workspaces goes
\* to Main with an empty workspace list, WorkspaceItems to Workspaces with
\* an empty item list, WorkspaceSelection to ItemActions, and the return
\* entry of ItemActions to WorkspaceItems without a current item.
C19_BackEntry ==
  LET h == useInput(state, "return")
  IN /\ (state.currentView = VIEWS_WORKSPACES
          /\ state.selectedWorkspace = Len(state.workspaces)) =>
            /\ h.st.currentView = VIEWS_MAIN
            /\ h.st.workspaces = <<>>
            /\ h.st.selectedWorkspace = 0
            /\ h.op = <<>>
     /\ (state.currentView = VIEWS_WORKSPACE_ITEMS
          /\ state.selectedWorkspaceItem = Len(state.workspaceItems)) =>
            /\ h.st.currentView = VIEWS_WORKSPACES
            /\ h.st.workspaceItems = <<>>
            /\ h.st.selectedWorkspaceItem = 0
            /\ h.op = <<>>
     /\ (state.currentView = VIEWS_WORKSPACE_SELECTION
          /\ state.selectedDestinationWorkspace = MaxIndexOf(state)) =>
            /\ h.st.currentView = VIEWS_ITEM_ACTIONS
            /\ h.st.selectedDestinationWorkspace = 0
            /\ h.op = <<>>
     /\ (state.currentView = VIEWS_ITEM_ACTIONS
          /\ state.selectedItemAction = 5) =>
            /\ h.st.currentView = VIEWS_WORKSPACE_ITEMS
            /\ h.st.selectedItemAction = 0
            /\ h.st.currentItem = <<>>
            /\ h.op = <<>>

\* C20: in every view but Main a q or Escape key event changes the view, to
\* the parent of the view where the view has one parent; in Main it exits.
C20_QuitLeavesEveryView ==
  ~nav.exited =>
    \A key \in {"q", "escape"} :
      LET h == useInput(state, key)
          v == state.currentView
      IN /\ v = VIEWS_MAIN => h.exit
         /\ v # VIEWS_MAIN => h.st.currentView # v
         /\ v = VIEWS_WORKSPACES => h.st.currentView = VIEWS_MAIN
         /\ v = VIEWS_WORKSPACE_ITEMS => h.st.currentView = VIEWS_WORKSPACES
         /\ v = VIEWS_ITEM_ACTIONS => h.st.currentView = VIEWS_WORKSPACE_ITEMS
         /\ v = VIEWS_WORKSPACE_SELECTION => h.st.currentView = VIEWS_ITEM_ACTIONS
         /\ v = VIEWS_COMMAND_HISTORY => h.st.currentView = VIEWS_MAIN


\* C21: each list view's cursor is at most the length of the list it
\* indexes: selectedWorkspace <= number of workspaces, selectedWorkspaceItem <=
\* number of items, selectedDestinationWorkspace <= number of available
\* destinations, in every reachable state.
C21_CursorWithinList ==
  /\ state.selectedWorkspace <= Len(state.workspaces)
  /\ state.selectedWorkspaceItem <= Len(state.workspaceItems)
  /\ state.selectedDestinationWorkspace <= Len(availableWorkspaces(state))

\* C22: the key c in the CommandHistory view empties the command history in
\* memory and, in the same step, in the history file; in any other view the
\* key c leaves the command history as it is, and no step of any view but
\* CommandHistory empties a command history that holds entries.
C22_ClearHistory ==
  /\ [](LET h == useInput(state, "c")
        IN IF state.currentView = VIEWS_COMMAND_HISTORY
           THEN h.st.commandHistory = <<>>
           ELSE h.st.commandHistory = state.commandHistory)
  /\ [][(state.commandHistory # <<>> /\ state'.commandHistory = <<>>) =>
          (state.currentView = VIEWS_COMMAND_HISTORY /\ persisted' = <<>>)]_vars

\* the history was cleared after a command had been recorded and saved
C22_Witness ==
  /\ state.currentView = VIEWS_COMMAND_HISTORY
  /\ DOMAIN state.cache # {}
  /\ state.commandHistory = <<>>
  /\ persisted = <<>>

\* C23: the command history never holds more than 50 entries after an
\* append, and every append puts the new entry at index 0, keeps the others
\* in their order, drops only the oldest when the capacity is exceeded, and
\* hands the new in-memory list to the history file.
C23_HistoryRing ==
  /\ [](obs.calls > 0 => Len(state.commandHistory) <= LIMITS_HISTORY_SIZE)
  /\ [][obs'.calls = obs.calls + 1 =>
          LET old == state.commandHistory
              new == state'.commandHistory
          IN /\ Len(new) = Min(Len(old) + 1, LIMITS_HISTORY_SIZE)
             /\ new[1].timestamp = now
             /\ \A i \in 2..Len(new) : new[i] = old[i - 1]
             /\ persisted' = new]_vars

\* an append to a full history has dropped its oldest entry
C23_Witness ==
  /\ obs.calls = 1
  /\ Len(state.commandHistory) = LIMITS_HISTORY_SIZE
  /\ state.commandHistory[LIMITS_HISTORY_SIZE].timestamp = 1 - LIMITS_HISTORY_SIZE
  /\ state.commandHistory[1].timestamp = now

\* C24: a call of a debounced function cancels the timer of the call before
\* it. The live timer is always the one of the latest call; when a timer
\* fires, the callback is invoked for the latest call (with its arguments),
\* and no call has the callback invoked twice: a burst of calls made while
\* a timer is pending leads to one invocation at most, that of its last call.
C24_TrailingEdge ==
  /\ [](/\ deb.timeoutRef # <<>> => deb.timeoutRef[1] = Len(deb.promises)
        /\ deb.syncTimeoutRef # <<>> => deb.syncTimeoutRef[1] = Len(deb.syncCalls)
        /\ \A i, j \in DOMAIN deb.invoked :
             i < j => deb.invoked[i] < deb.invoked[j]
        /\ \A i, j \in DOMAIN deb.syncInvoked :
             i < j => deb.syncInvoked[i] < deb.syncInvoked[j])
  /\ [][/\ deb'.invoked # deb.invoked =>
             deb'.invoked = Append(deb.invoked, Len(deb.promises))
        /\ deb'.syncInvoked # deb.syncInvoked =>
             deb'.syncInvoked = Append(deb.syncInvoked, Len(deb.syncCalls))]_vars

\* two calls in a burst, with different arguments: the callback was invoked
\* once, for the second
C24_Witness ==
  /\ Len(deb.promises) = 2
  /\ deb.promises[1].args = "a"
  /\ deb.promises[2].args = "b"
  /\ deb.invoked = <<2>>
  /\ deb.timeoutRef = <<>>

\* C25: every promise a debounced async function has returned can still be
\* resolved: a promise that is not settled is the one whose timer is live or
\* the one whose callback is running.
C25_EveryPromiseResolves ==
  \A p \in DOMAIN deb.promises :
    ~deb.promises[p].settled =>
       (deb.timeoutRef = <<p>> \/ deb.running = <<p>>)

\* C26: Return never starts a list subprocess while the subprocess of the
\* same list command is still running: the repeated key presses of a load
\* are coalesced into one subprocess.
C26_LoadsAreCoalesced ==
  ~nav.exited =>
    LET h == useInput(state, "return")
    IN \A i \in DOMAIN nav.pending :
         ~(/\ h.op # <<>>
           /\ h.op[1].kind \in {"menu", "items", "destinations"}
           /\ h.op[1].command = nav.pending[i].command
           /\ executeCommand_lookup(h.st, h.op[1].command, h.op[1].options, now) = <<>>)

\* the text holds an ANSI colour sequence: ESC [ digits-or-semicolons m
HasAnsi(s) ==
  \E i \in 1..(Len(s) - 2) : s[i] = ESC /\ s[i + 1] = "[" /\ AnsiEnd(s, i + 2) > 0

\* the text holds a CR LF pair
HasCrlf(s) == \E i \in 1..(Len(s) - 1) : s[i] = "\r" /\ s[i + 1] = "\n"

\* C27: cleanOutput is idempotent, and its result holds no ANSI colour
\* sequence and no CR LF pair.
C27_CleanOutputIdempotent ==
  pure.pc = "cleanOutput" =>
    /\ cleanOutput(pure.result) = pure.result
    /\ ~HasAnsi(pure.result)
    /\ ~HasCrlf(pure.result)

\* the timestamps of the text, in their order
TimestampsOf(text) ==
  LET IsTimestamp(token) == token \in TimestampTokens
  IN SelectSeq(text, IsTimestamp)

\* the text holds a line with a GUID
HasGuid(text) == \E i \in DOMAIN text : text[i] = GuidToken

\* C28: the StatusInfo parseJobStatus returns has endTime null or different
\* from startTime. For a data line with two or more timestamps, startTime
\* is the first; endTime is the last when the two differ once normalised to
\* T and Z, and null when they are identical, also when they are identical
\* only after the normalisation.
C28_EndTimeNullOrDifferent ==
  pure.pc = "parseJobStatus" =>
    LET r == pure.result
        ts == TimestampsOf(pure.text)
    IN /\ r.endTime = <<>> \/ r.endTime # r.startTime
       /\ (HasGuid(pure.text) /\ Len(ts) >= 2) =>
            LET first == NormaliseTimestamp(ts[1])
                last == NormaliseTimestamp(ts[Len(ts)])
            IN /\ r.startTime = <<first>>
               /\ r.endTime = IF first # last THEN <<last>> ELSE <<>>

\* two timestamps that differ as printed and are identical once normalised
C28_Witness ==
  /\ pure.pc = "parseJobStatus"
  /\ HasGuid(pure.text)
  /\ Len(TimestampsOf(pure.text)) = 2
  /\ TimestampsOf(pure.text)[1] # TimestampsOf(pure.text)[2]
  /\ pure.result.startTime # <<>>
  /\ pure.result.endTime = <<>>

\* C29: the status parseJobStatus returns is one of NotStarted, InProgress,
\* Completed, Succeeded, Failed, Unknown in exactly that spelling, whatever
\* the letter case of the status word in the text.
C29_StatusInVocabulary ==
  pure.pc = "parseJobStatus" =>
    pure.result.status \in
      {"NotStarted", "InProgress", "Completed", "Succeeded", "Failed", "Unknown"}

\* C30: executeCommandWithRetry returns the result of its first successful
\* attempt and makes no attempt after it; every attempt after the first runs
\* with skipCache true; before each further attempt it sets 'Attempt N
\* failed. Retrying...' and sleeps RETRY_DELAY * N, N the number of the
\* attempt that failed; after the last attempt it neither sleeps nor sets
\* that message.
C30_RetryLoop ==
  /\ [](/\ (retry.pc = "done" /\ retry.result[1].success) =>
             /\ retry.failed = retry.calls - 1
             /\ retry.result = exec.result
        /\ (retry.pc = "await" /\ retry.attempt > 0) => SkipCache(exec.options)
        /\ retry.pc = "sleep" =>
             /\ retry.attempt < retry.retries
             /\ retry.delay = TIMEOUTS_RETRY_DELAY * (retry.attempt + 1)
        /\ (retry.pc = "done" /\ ~retry.result[1].success) =>
             /\ retry.attempt = retry.retries
             /\ state.error = FailedAfter(retry.retries + 1, retry.lastError))
  /\ [][/\ (retry'.pc = "sleep" /\ retry.pc # "sleep") =>
             state'.error = AttemptFailed(retry.attempt + 1)
        /\ retry'.attempt > retry.attempt =>
             (retry.pc = "sleep" /\ retry'.attempt = retry.attempt + 1)
        /\ (retry.pc = "done" /\ retry'.pc # "done") => retry'.attempt = 0]_vars

\* the first attempt failed, the second one, made after the delay with
\* skipCache, succeeded and was returned
C30_Witness ==
  /\ retry.pc = "done"
  /\ retry.result[1].success
  /\ retry.calls = 2
  /\ retry.failed = 1
  /\ retry.delay = TIMEOUTS_RETRY_DELAY
  /\ SkipCache(exec.options)

-----------------------------------------------------------------------------
(* C31: leaving the Output view *)

\* the three ways 'q' or Escape leaves the Output view from st
OutputBack(st, h) ==
  IF st.currentItem # <<>>
  THEN /\ h.st = [st EXCEPT !.currentView = VIEWS_ITEM_ACTIONS]
       /\ h.op = <<>>
  ELSE IF st.workspaces # <<>> /\ st.selectedWorkspace < Len(st.workspaces)
  THEN /\ h.st.currentView = VIEWS_WORKSPACE_ITEMS
       /\ h.st.workspaceItems = <<>>
       /\ h.op # <<>>
       /\ h.op[1].kind = "items"
       /\ h.op[1].command =
            CommandBuilder_listWorkspace(st.workspaces[st.selectedWorkspace + 1])
  ELSE /\ h.st = resetState(st)
       /\ h.st.currentView = VIEWS_MAIN
       /\ h.op = <<>>

OutputKeys ==
  (state.currentView = VIEWS_OUTPUT /\ ~state.inInteractiveMode) =>
    \A key \in {"q", "escape"} :
      LET h == useInput(state, key)
      IN ~h.exit /\ OutputBack(state, h)

\* a move or copy whose command succeeded has just continued
Finished(moving) ==
  /\ nav.returned # <<>>
  /\ nav.returned[1].op.kind = "move"
  /\ nav.returned[1].op.moving = moving
  /\ nav.returned[1].success

-----------------------------------------------------------------------------
(* C32: the completed set *)

\* the items a job may be marked completed for: those of the active jobs and
\* one no job was started for
MarkedItems ==
  {<<state.activeJobs[i].workspace, state.activeJobs[i].notebook>> :
     i \in DOMAIN state.activeJobs} \cup {<<"ws1", "other.Notebook">>}

\* the fields of the State other than the completed set
SameButCompleted(a, b) ==
  \A f \in DOMAIN a : f # "completedJobs" => a[f] = b[f]

\* C32: markJobCompleted adds the key workspace/item to the completed set and
\* changes nothing else, the active-jobs list included; marking a key that is
\* in the set leaves the State as it is; a step changes the completed set by
\* adding to it with the active jobs left alone, unless it resets the State
C32_MarkOnlyAdds ==
  /\ [](\A item \in MarkedItems :
          LET m == markJobCompleted(state, item[1], item[2])
              key == JobKey(item[1], item[2])
          IN /\ m.completedJobs = state.completedJobs \cup {key}
             /\ m.activeJobs = state.activeJobs
             /\ SameButCompleted(m, state)
             /\ key \in state.completedJobs => m = state
             /\ markJobCompleted(m, item[1], item[2]) = m)
  /\ [][state'.completedJobs # state.completedJobs =>
          \/ /\ state.completedJobs \subseteq state'.completedJobs
             /\ state'.activeJobs = state.activeJobs
          \/ state' = resetState(state)]_vars

\* a poll marked the item of a job completed and the job is still on the
\* active-jobs list, two status queries having been issued
C32_Witness ==
  /\ \E i \in DOMAIN state.activeJobs :
       /\ JobKey(state.activeJobs[i].workspace, state.activeJobs[i].notebook)
            \in state.completedJobs
       /\ \E k \in DOMAIN poll.batch :
            /\ poll.batch[k].job = state.activeJobs[i]
            /\ poll.batch[k].pc = "done"
            /\ poll.batch[k].reported # <<>>
            /\ poll.batch[k].reported[1] \in TerminalStatuses
  /\ poll.queries >= 2

-----------------------------------------------------------------------------
(* C33: fetches that complete late *)

\* the view a handler shows while it awaits its listing
AwaitingView(kind) ==
  IF kind \in {"menu", "refresh"} THEN VIEWS_WORKSPACES
  ELSE IF kind = "items" THEN VIEWS_WORKSPACE_ITEMS
  ELSE VIEWS_WORKSPACE_SELECTION

\* C33: when a listing completes after the user has left the view that
\* awaited it, the continuation leaves the current view, the workspace list
\* and the item list as it found them
C33_LateFetchChangesNothing ==
  (/\ nav.returned # <<>>
   /\ nav.returned[1].op.kind \in {"menu", "refresh", "items", "destinations"}
   /\ nav.returned[1].currentView # AwaitingView(nav.returned[1].op.kind)) =>
     /\ state.currentView = nav.returned[1].currentView
     /\ state.workspaces = nav.returned[1].workspaces
     /\ state.workspaceItems = nav.returned[1].workspaceItems

-----------------------------------------------------------------------------
(* C34: the current item of the item views *)

\* C34: while the view is ItemActions or WorkspaceSelection a current item
\* is set
C34_ItemViewsHaveItem ==
  state.currentView \in {VIEWS_ITEM_ACTIONS, VIEWS_WORKSPACE_SELECTION} =>
    state.currentItem # <<>>

-----------------------------------------------------------------------------
(* C35: the destination of a move or copy *)

\* the move or copy command a handler awaits is the one CommandBuilder makes
\* from the item, its workspace and a destination other than that workspace
MovesElsewhere(op) ==
  /\ op.item # <<>>
  /\ op.arg # op.item[1].workspace
  /\ op.command =
       IF op.moving
       THEN CommandBuilder_moveItem(op.item[1].workspace, op.arg, op.item[1].name)
       ELSE CommandBuilder_copyItem(op.item[1].workspace, op.arg, op.item[1].name)

\* C35: a move or copy command that runs has a destination other than the
\* workspace of the item; Return in WorkspaceSelection takes the destination
\* from the workspaces other than the one of the current item, and on the
\* index past them it shows ItemActions and issues no command
C35_DestinationDiffers ==
  /\ \A i \in DOMAIN nav.pending :
       nav.pending[i].kind = "move" => MovesElsewhere(nav.pending[i])
  /\ (state.currentView = VIEWS_WORKSPACE_SELECTION /\ ~state.inInteractiveMode) =>
       LET h == useInput(state, "return")
           available == availableWorkspaces(state)
       IN /\ h.op # <<>> =>
               /\ h.op[1].kind = "move"
               /\ MovesElsewhere(h.op[1])
               /\ state.selectedDestinationWorkspace < Len(available)
               /\ h.op[1].arg = available[state.selectedDestinationWorkspace + 1]
               /\ \E k \in DOMAIN state.workspaces : state.workspaces[k] = h.op[1].arg
          /\ state.selectedDestinationWorkspace >= Len(available) =>
               /\ h.op = <<>>
               /\ h.st.currentView = VIEWS_ITEM_ACTIONS

\* a move to ws2 of an item of ws1 is running
C35_Witness ==
  \E i \in DOMAIN nav.pending :
    /\ nav.pending[i].kind = "move"
    /\ nav.pending[i].moving
    /\ nav.pending[i].item[1].workspace = "ws1"
    /\ nav.pending[i].arg = "ws2"

-----------------------------------------------------------------------------
(* C36: what a poll tick shows *)

\* C36: a poll tick leaves output, error and loading as they are. The start
\* command runs silent, so in the runs of the poller the output holds the
\* messages of the start handler and never the table of a status query, the
\* error stays empty, and loading is set only while a start command runs
C36_PollLeavesDisplay ==
  /\ \A w \in {"InProgress", "Completed", "Failed", "failed"} :
       state.output # cleanOutput(StatusTable(w))
  /\ state.error = <<>>
  /\ (InFlight # {} /\ poll.starting = <<>>) => ~state.loading

-----------------------------------------------------------------------------
(* C37: what the result cache holds *)

\* C37: every entry of the result cache is a result with success = true; a
\* call answered from the cache returns a successful result; and after a
\* call that failed, the same call finds no usable entry and runs the
\* command again
C37_CacheHoldsSuccesses ==
  /\ \A key \in DOMAIN state.cache : state.cache[key].data.success
  /\ (exec.pc = "done" /\ exec.path = "hit") => exec.result[1].success
  /\ (exec.pc = "done" /\ ~exec.result[1].success) =>
       executeCommand_lookup(state, exec.command, exec.options, now) = <<>>

\* a command whose result is in the cache was run again once the entry had
\* expired, and failed: the entry in the cache is still the successful one
C37_Witness ==
  /\ exec.pc = "done"
  /\ ~exec.result[1].success
  /\ ~SkipCache(exec.options)
  /\ CacheKey(exec.command, exec.options) \in DOMAIN state.cache
  /\ state.cache[CacheKey(exec.command, exec.options)].data.success

-----------------------------------------------------------------------------
(* C38: after the terminal event of a streamed command *)

\* C38: once the child of a streamed command closed, failed to spawn or timed
\* out, the status interval is cleared; when the close handler resolved the
\* promise, the timeout timer does not fire afterwards and the error is not
\* the timeout error; and when the timeout rejected the promise, no history
\* entry is appended for the command afterwards
C38_TerminalIsFinal ==
  /\ (stream.closed \/ stream.errored \/ stream.timer = "fired") =>
       ~stream.statusInterval
  /\ stream.settled = "resolved" =>
       /\ stream.timer # "fired"
       /\ state.error # StreamTimedOut
  /\ (stream.settled = "rejected" /\ stream.value = StreamTimedOut) =>
       AppendedSince(stream.appendedAtCall) = 0

-----------------------------------------------------------------------------
(* C39: resetState *)

\* the fields resetState carries over
KeptByReset == {"config", "commandHistory", "cache"}

\* r is st with every field but the kept ones back at its initial value
IsReset(r, st) ==
  /\ DOMAIN r = DOMAIN st
  /\ \A f \in KeptByReset : r[f] = st[f]
  /\ \A f \in DOMAIN r \ KeptByReset : r[f] = createInitialState[f]
  /\ r.selectedOption = 0 /\ r.selectedWorkspace = 0
  /\ r.selectedWorkspaceItem = 0 /\ r.selectedItemAction = 0
  /\ r.selectedJobOption = 0 /\ r.selectedDestinationWorkspace = 0
  /\ r.workspaces = <<>> /\ r.workspaceItems = <<>>
  /\ r.currentItem = <<>> /\ r.currentJob = <<>>
  /\ r.activeJobs = <<>> /\ r.completedJobs = {}

====
